---- MODULE Spec2Model ----
(***************************************************************************)
(* A model of the UPS shipping backend (smartfilterpro/ups):               *)
(*   - the box packer packFiltersIntoBoxes      (src/src/routes/ups.js)    *)
(*   - the status table mapUpsStatus            (services/trackingPoller)  *)
(*   - the tracking poller pollAllShipments / pollSingleShipment with the  *)
(*     shipment store, the tracking-event store and the Bubble notifier,   *)
(*     and the timer that start() and stop() arm and clear;                *)
(*   - bubbleService.postTrackingUpdate   (src/services/bubbleService.js)  *)
(*   - the routes POST /quote, POST /ship and POST /void.                  *)
(*                                                                         *)
(* Units.  Lengths, widths and depths are whole inches.  Weights are kept  *)
(* in hundredths of a pound inside a box (the code rounds every estimate   *)
(* to 2 decimals) and in tenths of a pound in the returned box.            *)
(***************************************************************************)
EXTENDS Integers, Sequences, FiniteSets, Bags, TLC

VARIABLES
    \* ---- packFiltersIntoBoxes -------------------------------------------
    filters,      \* the argument: a sequence of {length, width, depth}
    sorted,       \* const sorted = [...filters].sort(...)
    boxes,        \* const boxes = []
    packIdx,      \* position of the for..of loop in sorted
    pcPack,       \* "idle" | "sort" | "pack" | "done"
    result,       \* the returned array (boxes.map(...))
    \* ---- mapUpsStatus -----------------------------------------------------
    mapArgs,      \* <<statusType, statusCode>> or <<>> when not in use
    mapResult,    \* the value returned, or Pending
    \* ---- the stores and the carrier ----------------------------------------
    shipments,        \* table shipments: tracking number -> [status, delivered_at]
    tracking_events,  \* table tracking_events: a bag of rows
    clock,            \* the instant new Date() gives next
    carrier,          \* the carrier's activity list per tracking number
    \* ---- the poll runs (pollAllShipments, POST /tracking/:tn/poll) ---------
    pc,               \* run -> control position
    kind,             \* run -> "batch" | "forced" | Null
    queue,            \* run -> the shipment rows still to poll, current first
    activities,       \* run -> pkg.activity of the current poll
    actIdx,           \* run -> position of for (const activity of activities)
    newStatus,        \* run -> newStatus of the current poll
    threw,            \* run -> the current pollSingleShipment call has thrown
    updated,          \* run -> let updated of pollAllShipments
    errors,           \* run -> let errors of pollAllShipments
    \* ---- the interval timer of start() / stop() ----------------------------
    pollTimer,        \* let pollTimer: TRUE when it holds an interval handle
    armed,            \* how many intervals set by setInterval are not cleared
    \* ---- one call of bubbleService.postTrackingUpdate from a poll ------------
    notePc,           \* "idle" | "insert" | "call" | "fetch" | "returned" | "thrown" | "aborted"
    noteEnv,          \* isConfigured(): BUBBLE_API_URL and BUBBLE_API_KEY are set
    noteCall,         \* [shipment, activity]: the row and activities[0] of the poll
    outbound,         \* history: the bodies fetch was called with
    noteOutcome,      \* history: how the fetch settled, or <<>>
    noteResult,       \* the value postTrackingUpdate resolved with, or <<>>
    \* ---- one request to POST /void (with reqBody, routePc, response) -------
    numbersToVoid,    \* let numbersToVoid
    voidIdx,          \* position of for (const tn of numbersToVoid)
    voided,           \* const voided
    failed,           \* const failed
    voidCalls,        \* history: <<[trackingNumber, returned]>> per voidShipment call
    \* ---- what each run has done (history) ----------------------------------
    polled,           \* run -> tracking number -> calls of pollSingleShipment
    atRead,           \* run -> the shipments not terminal when the run read the store
    lastWrite,        \* run -> the status write of the current poll, or <<>>
    lastNote,         \* run -> the payload posted in the current poll, or <<>>
    started,          \* how many poll runs have been started
    \* ---- one request to POST /quote or POST /ship -------------------------
    reqBody,          \* req.body, or <<>> when no request is in hand
    routePc,          \* control position of the handler
    addressGroups,    \* Object.entries(addressGroups): <<[address, sizes]>>
    groupIdx,         \* position of the loop over the addresses
    routeBoxes,       \* const boxes = packFiltersIntoBoxes(filterSizes)
    boxIdx,           \* position of for (const box of boxes)
    boxRates,         \* const boxRates / shipmentResults of the current address
    results,          \* const results / addressResults
    serviceTotals,    \* const serviceTotals: service name -> cost
    carrierCalls,     \* history: the shopRates / createShipment calls made
    response          \* what the handler answered, or <<>>

packVars == <<filters, sorted, boxes, packIdx, pcPack, result>>
mapVars  == <<mapArgs, mapResult>>
storeVars == <<shipments, tracking_events, clock, carrier>>
runVars  == <<pc, kind, queue, activities, actIdx, newStatus>>
histVars == <<polled, atRead, lastWrite, lastNote, started>>
countVars == <<threw, updated, errors>>
timerVars == <<pollTimer, armed>>
pollVars == <<storeVars, runVars, histVars, countVars, timerVars>>
routeVars == <<reqBody, routePc, addressGroups, groupIdx, routeBoxes, boxIdx,
               boxRates, results, serviceTotals, carrierCalls, response>>
notifierVars == <<notePc, noteEnv, noteCall, outbound, noteOutcome, noteResult>>
voidVars == <<numbersToVoid, voidIdx, voided, failed, voidCalls>>
vars     == <<packVars, mapVars, pollVars, routeVars, notifierVars, voidVars>>

\* JavaScript's undefined / null / SQL NULL
Null == "null"
\* no value produced yet (a model value, not a program value)
Pending == "pending"

(***************************************************************************)
(* Shipments, poll runs and the parts of the model that are not in use     *)
(***************************************************************************)

\* the shipments in the store; 1Z02 was created after 1Z01
TrackingNumbers == {"1Z01", "1Z02"}
\* ORDER BY created_at DESC
ByCreatedAtDesc == <<"1Z02", "1Z01">>

\* poll runs: invocations of pollAllShipments and forced-poll requests.  Two
\* may be in flight at a time (a finished run's slot is taken again), MaxRuns
\* are started in all.
Runs == {1, 2}
MaxRuns == 2

NoRun ==
    /\ pc = [r \in Runs |-> "idle"]
    /\ kind = [r \in Runs |-> Null]
    /\ queue = [r \in Runs |-> <<>>]
    /\ activities = [r \in Runs |-> <<>>]
    /\ actIdx = [r \in Runs |-> 0]
    /\ newStatus = [r \in Runs |-> Null]
    /\ threw = [r \in Runs |-> FALSE]
    /\ updated = [r \in Runs |-> 0]
    /\ errors = [r \in Runs |-> 0]
    /\ polled = [r \in Runs |-> [tn \in TrackingNumbers |-> 0]]
    /\ atRead = [r \in Runs |-> {}]
    /\ lastWrite = [r \in Runs |-> <<>>]
    /\ lastNote = [r \in Runs |-> <<>>]
    /\ started = 0
    /\ pollTimer = FALSE
    /\ armed = 0

PollIdle ==
    /\ shipments = [tn \in TrackingNumbers |-> [status |-> "created", delivered_at |-> 0]]
    /\ tracking_events = EmptyBag
    /\ clock = 1
    /\ carrier = [tn \in TrackingNumbers |-> <<>>]
    /\ NoRun

MapIdle == mapArgs = <<>> /\ mapResult = Pending

NotifierIdle ==
    /\ notePc = "idle"
    /\ noteEnv = FALSE
    /\ noteCall = <<>>
    /\ outbound = <<>>
    /\ noteOutcome = <<>>
    /\ noteResult = <<>>

VoidIdle ==
    /\ numbersToVoid = <<>>
    /\ voidIdx = 0
    /\ voided = <<>>
    /\ failed = <<>>
    /\ voidCalls = <<>>

RouteIdle ==
    /\ reqBody = <<>>
    /\ routePc = "idle"
    /\ addressGroups = <<>>
    /\ groupIdx = 0
    /\ routeBoxes = <<>>
    /\ boxIdx = 0
    /\ boxRates = <<>>
    /\ results = <<>>
    /\ serviceTotals = <<>>
    /\ carrierCalls = <<>>
    /\ response = <<>>

(***************************************************************************)
(*                          THE BOX PACKER                                 *)
(***************************************************************************)

\* ---- bounds of the packer's inputs ----
MaxFilters == 3
MaxItemDepth == 5
\* two footprints, so that the longest and the widest filter of a box differ
\* and that an estimated weight (0.94 lb for 20x16x1) is not a whole number
\* of tenths of a pound
Footprints == {<<16, 25>>, <<20, 16>>}
FilterSizes ==
    {[length |-> f[1], width |-> f[2], depth |-> d] :
        f \in Footprints, d \in 0..MaxItemDepth}

SeqsUpTo(S, n) == UNION {[1..k -> S] : k \in 0..n}

\* ---- program constants ----
MAX_DEPTH == 4
\* BOX_WEIGHT = 0.5 lb, in hundredths of a pound
BOX_WEIGHT == 50

\* Math.round((0.3 + volume * 0.002) * 100) / 100, in hundredths of a pound:
\* round(30 + 0.2 * volume), Math.round rounding halves up.
estimateFilterWeight(length, width, depth) ==
    (300 + 2 * (length * width * depth) + 5) \div 10

Max(a, b) == IF a >= b THEN a ELSE b

\* the comparator (a, b) => b.depth - a.depth
CompareAsc(a, b) == a.depth - b.depth
Compare(a, b) == b.depth - a.depth

\* Array.prototype.sort is stable: x is put after every element that does
\* not compare greater than it.
RECURSIVE Insert(_, _)
Insert(s, x) ==
    IF s = <<>> THEN <<x>>
    ELSE IF Compare(x, Head(s)) < 0 THEN <<x>> \o s
    ELSE <<Head(s)>> \o Insert(Tail(s), x)

RECURSIVE SortFrom(_, _, _)
SortFrom(acc, s, i) ==
    IF i > Len(s) THEN acc ELSE SortFrom(Insert(acc, s[i]), s, i + 1)

SortByDepth(s) == SortFrom(<<>>, s, 1)

\* if (box.currentDepth + filter.depth <= MAX_DEPTH)
FitsOverCap(box, filter) == box.currentDepth + filter.depth <= MAX_DEPTH + 1
Fits(box, filter) == box.currentDepth + filter.depth <= MAX_DEPTH

\* for (const box of boxes) { if (fits) { ...; break; } }: the index of the
\* box the loop stops at, 0 when it runs to the end (placed stays false)
RECURSIVE ScanBoxes(_, _, _)
ScanBoxes(bs, filter, i) ==
    IF i > Len(bs) THEN 0
    ELSE IF Fits(bs[i], filter) THEN i
    ELSE ScanBoxes(bs, filter, i + 1)

\* the body of the if: push the filter and grow the box
AddToBoxNoPush(box, filter) ==
    [filters      |-> box.filters,
     length       |-> Max(box.length, filter.length),
     width        |-> Max(box.width, filter.width),
     currentDepth |-> box.currentDepth + filter.depth,
     weight       |-> box.weight
                      + estimateFilterWeight(filter.length, filter.width, filter.depth)]
AddToBox(box, filter) ==
    [filters      |-> Append(box.filters, filter),
     length       |-> Max(box.length, filter.length),
     width        |-> Max(box.width, filter.width),
     currentDepth |-> box.currentDepth + filter.depth,
     weight       |-> box.weight
                      + estimateFilterWeight(filter.length, filter.width, filter.depth)]

\* a new box that leaves out the weight of the cardboard
NewBoxNoTare(filter) ==
    [filters      |-> <<filter>>,
     length       |-> filter.length,
     width        |-> filter.width,
     currentDepth |-> filter.depth,
     weight       |-> estimateFilterWeight(filter.length, filter.width, filter.depth)]

\* boxes.push({ filters: [filter], ... })
NewBox(filter) ==
    [filters      |-> <<filter>>,
     length       |-> filter.length,
     width        |-> filter.width,
     currentDepth |-> filter.depth,
     weight       |-> BOX_WEIGHT
                      + estimateFilterWeight(filter.length, filter.width, filter.depth)]

\* an iteration that drops a filter deeper than the cap
PlaceFilterSkippingOversized(bs, filter) ==
    LET i == ScanBoxes(bs, filter, 1)
    IN  IF filter.depth > MAX_DEPTH THEN bs
        ELSE IF i > 0 THEN [bs EXCEPT ![i] = AddToBox(bs[i], filter)]
        ELSE Append(bs, NewBox(filter))

\* one iteration of for (const filter of sorted)
PlaceFilter(bs, filter) ==
    LET i == ScanBoxes(bs, filter, 1)
    IN  IF i > 0 THEN [bs EXCEPT ![i] = AddToBox(bs[i], filter)]
        ELSE Append(bs, NewBox(filter))

\* boxes.map(box => ({...})); dimensions is the string `${length}x${width}x
\* ${currentDepth}`, kept as the triple it is built from; weight is
\* Math.round(box.weight * 10) / 10, in tenths of a pound
FinalBox(box) ==
    [dimensions  |-> <<box.length, box.width, box.currentDepth>>,
     length      |-> box.length,
     width       |-> box.width,
     height      |-> box.currentDepth,
     filterCount |-> Len(box.filters),
     weight      |-> (box.weight + 5) \div 10]

PackIdle ==
    /\ filters = <<>> /\ sorted = <<>> /\ boxes = <<>>
    /\ packIdx = 0 /\ pcPack = "idle" /\ result = <<>>

InitPack ==
    /\ filters \in SeqsUpTo(FilterSizes, MaxFilters)
    /\ sorted = <<>>
    /\ boxes = <<>>
    /\ packIdx = 0
    /\ pcPack = "sort"
    /\ result = <<>>
    /\ MapIdle
    /\ PollIdle
    /\ RouteIdle
    /\ NotifierIdle
    /\ VoidIdle

\* const sorted = [...filters].sort((a, b) => b.depth - a.depth); boxes = []
SortFilters ==
    /\ pcPack = "sort"
    /\ sorted' = SortByDepth(filters)
    /\ boxes' = <<>>
    /\ packIdx' = 1
    /\ pcPack' = "pack"
    /\ UNCHANGED <<filters, result, mapVars, pollVars, routeVars, notifierVars, voidVars>>

\* one pass of the outer loop: place sorted[packIdx]
PackNext ==
    /\ pcPack = "pack"
    /\ packIdx <= Len(sorted)
    /\ boxes' = PlaceFilter(boxes, sorted[packIdx])
    /\ packIdx' = packIdx + 1
    /\ UNCHANGED <<filters, sorted, pcPack, result, mapVars, pollVars, routeVars, notifierVars,
                   voidVars>>

\* return boxes.map(...)
PackReturn ==
    /\ pcPack = "pack"
    /\ packIdx > Len(sorted)
    /\ result' = [b \in 1..Len(boxes) |-> FinalBox(boxes[b])]
    /\ pcPack' = "done"
    /\ UNCHANGED <<filters, sorted, boxes, packIdx, mapVars, pollVars, routeVars, notifierVars,
                   voidVars>>

NextPack == SortFilters \/ PackNext \/ PackReturn

SpecPack == InitPack /\ [][NextPack]_vars

(***************************************************************************)
(* Claims about the packer (checked under SpecPack)                        *)
(***************************************************************************)

RECURSIVE SumDepth(_)
SumDepth(s) == IF s = <<>> THEN 0 ELSE Head(s).depth + SumDepth(Tail(s))

RECURSIVE Flatten(_)
Flatten(bs) == IF bs = <<>> THEN <<>> ELSE Head(bs).filters \o Flatten(Tail(bs))

SeqToBag(s) ==
    [e \in {s[i] : i \in DOMAIN s} |-> Cardinality({i \in DOMAIN s : s[i] = e})]

RECURSIVE SumFilterCount(_)
SumFilterCount(r) ==
    IF r = <<>> THEN 0 ELSE Head(r).filterCount + SumFilterCount(Tail(r))

Depths(s) == [i \in DOMAIN s |-> s[i].depth]

AllWithinCap == \A i \in DOMAIN filters : filters[i].depth <= 4

\* C1: when every input item has depth <= 4, every box has height <= 4 after
\* every placement step and in the returned list, the height being the sum of
\* the depths of the items placed in the box.
C1_BoxesWithinCap ==
    AllWithinCap =>
        /\ \A b \in DOMAIN boxes :
              /\ boxes[b].currentDepth <= 4
              /\ boxes[b].currentDepth = SumDepth(boxes[b].filters)
        /\ \A b \in DOMAIN result :
              /\ result[b].height <= 4
              /\ result[b].height = SumDepth(boxes[b].filters)

\* a finished packing of three items within the cap, where one item joined an
\* existing box and filled it to the cap and another had to open a second box
C1_Witness ==
    /\ pcPack = "done"
    /\ AllWithinCap
    /\ Len(filters) = 3
    /\ Len(result) = 2
    /\ \E b \in DOMAIN result : result[b].height = 4 /\ result[b].filterCount = 2

\* C2: no item is lost or duplicated: after every placement step the boxes
\* hold exactly the items placed so far, at the end the boxes flattened are the
\* same multiset as the input, the filterCounts sum to the input length, and
\* an empty input gives no box.
C2_NoItemLostOrDuplicated ==
    /\ pcPack = "pack" =>
          SeqToBag(Flatten(boxes)) = SeqToBag(SubSeq(sorted, 1, packIdx - 1))
    /\ pcPack = "done" =>
          /\ SeqToBag(Flatten(boxes)) = SeqToBag(filters)
          /\ SumFilterCount(result) = Len(filters)
          /\ Len(result) = Len(boxes)
          /\ (filters = <<>> => result = <<>>)

\* three items of which two share a box (one was added to an existing box)
C2_Witness ==
    /\ pcPack = "done"
    /\ Len(filters) = 3
    /\ \E b \in DOMAIN boxes : Len(boxes[b].filters) = 2
    /\ \E i, j \in DOMAIN filters : i # j /\ filters[i] = filters[j]

\* The reference first-fit-decreasing packer of the claim, stated on its own:
\* the place of input item i in depth-descending order with ties in input order
RefRank(f, i) ==
    1 + Cardinality({j \in DOMAIN f : f[j].depth > f[i].depth})
      + Cardinality({j \in 1..(i - 1) : f[j].depth = f[i].depth})

RefSorted(f) ==
    [k \in DOMAIN f |-> f[CHOOSE i \in DOMAIN f : RefRank(f, i) = k]]

\* bins are plain item lists; an item goes to the first bin, in creation order,
\* whose depth plus the item's depth is <= 4, else to a new bin at the end
RECURSIVE RefPack(_, _, _)
RefPack(s, k, bins) ==
    IF k > Len(s) THEN bins
    ELSE LET open  == {b \in DOMAIN bins : SumDepth(bins[b]) + s[k].depth <= 4}
             first == CHOOSE b \in open : \A c \in open : b <= c
         IN  RefPack(s, k + 1,
                     IF open = {} THEN Append(bins, <<s[k]>>)
                     ELSE [bins EXCEPT ![first] = Append(@, s[k])])

\* C3: the packer equals the reference first-fit-decreasing packer: the same
\* processing order, the same items in the same boxes in the same order; and
\* depths [1,1,3] give a box of 2 items and depth 4, then one of 1 item, depth 1.
C3_EqualsFirstFitDecreasing ==
    pcPack = "done" =>
        LET ref == RefPack(RefSorted(filters), 1, <<>>)
        IN  /\ sorted = RefSorted(filters)
            /\ [b \in DOMAIN boxes |-> boxes[b].filters] = ref
            /\ [b \in DOMAIN result |-> <<result[b].filterCount, result[b].height>>]
                 = [b \in DOMAIN ref |-> <<Len(ref[b]), SumDepth(ref[b])>>]
            /\ (Depths(filters) = <<1, 1, 3>> =>
                  [b \in DOMAIN result |-> <<result[b].filterCount, result[b].height>>]
                    = << <<2, 4>>, <<1, 1>> >>)

\* the scenario [1,1,3], with the two depth-1 items distinguishable, so that
\* the order of the tie shows in the boxes
C3_Witness ==
    /\ pcPack = "done"
    /\ Depths(filters) = <<1, 1, 3>>
    /\ filters[1] # filters[2]

(***************************************************************************)
(*                          mapUpsStatus                                   *)
(***************************************************************************)

\* the carrier's status types of the table, other strings, the empty string
\* and a missing value
KnownTypes == {"D", "I", "P", "M", "X", "RS", "O"}
OtherTypes == {"d", "ZZ", "NA"}
StatusTypes == KnownTypes \cup OtherTypes \cup {"", Null}
StatusCodes == {"FS", "IP", "MP", "X1", "", Null}

\* if (!statusType): undefined, null and the empty string are falsy
Falsy(v) == v = Null \/ v = ""

mapUpsStatusNoO(statusType, statusCode) ==
    IF Falsy(statusType) THEN Null
    ELSE CASE statusType = "D"  -> "delivered"
           [] statusType = "I"  -> "in_transit"
           [] statusType = "P"  -> "in_transit"
           [] statusType = "M"  -> "created"
           [] statusType = "X"  -> "exception"
           [] statusType = "RS" -> "returned"
           [] OTHER             -> "in_transit"
mapUpsStatus(statusType, statusCode) ==
    IF Falsy(statusType) THEN Null
    ELSE CASE statusType = "D"  -> "delivered"
           [] statusType = "I"  -> "in_transit"
           [] statusType = "P"  -> "in_transit"
           [] statusType = "M"  -> "created"
           [] statusType = "X"  -> "exception"
           [] statusType = "RS" -> "returned"
           [] statusType = "O"  -> "out_for_delivery"
           [] OTHER             -> "in_transit"

InitMap ==
    /\ mapArgs \in StatusTypes \X StatusCodes
    /\ mapResult = Pending
    /\ PackIdle
    /\ PollIdle
    /\ RouteIdle
    /\ NotifierIdle
    /\ VoidIdle

CallMapUpsStatus ==
    /\ mapArgs # <<>>
    /\ mapResult = Pending
    /\ mapResult' = mapUpsStatus(mapArgs[1], mapArgs[2])
    /\ UNCHANGED <<mapArgs, packVars, pollVars, routeVars, notifierVars, voidVars>>

NextMap == CallMapUpsStatus

SpecMap == InitMap /\ [][NextMap]_vars

\* C8: mapUpsStatus is the fixed table D -> delivered, I -> in_transit,
\* P -> in_transit, M -> created, X -> exception, RS -> returned,
\* O -> out_for_delivery, any other present statusType -> in_transit, absent
\* statusType (undefined, null or empty: the falsy values) -> null; the result
\* does not depend on statusCode and is never voided or exception_resolved.
C8_StatusTable ==
    mapResult # Pending =>
        LET t == mapArgs[1]
        IN  /\ t = "D"  => mapResult = "delivered"
            /\ t = "I"  => mapResult = "in_transit"
            /\ t = "P"  => mapResult = "in_transit"
            /\ t = "M"  => mapResult = "created"
            /\ t = "X"  => mapResult = "exception"
            /\ t = "RS" => mapResult = "returned"
            /\ t = "O"  => mapResult = "out_for_delivery"
            /\ t \in OtherTypes => mapResult = "in_transit"
            /\ t \in {"", Null} => mapResult = Null
            /\ mapResult \notin {"voided", "exception_resolved"}
            /\ \A c \in StatusCodes : mapUpsStatus(t, c) = mapResult

\* the table applied to type O with a status code
C8_Witness ==
    /\ mapArgs = <<"O", "FS">>
    /\ mapResult = "out_for_delivery"

(***************************************************************************)
(*                    THE STORES AND THE CARRIER                           *)
(***************************************************************************)

\* a NULL timestamp column (delivered_at); instants are 1, 2, ...
NoTime == 0

Statuses ==
    {"created", "in_transit", "out_for_delivery", "delivered",
     "exception", "returned", "voided", "exception_resolved"}

\* WHERE status NOT IN ('delivered', 'voided', 'returned', 'exception_resolved')
InactiveStatusesAsDocumented == {"delivered", "voided", "returned"}
InactiveStatuses == {"delivered", "voided", "returned", "exception_resolved"}

\* SELECT * FROM shipments: the row of one shipment as the caller holds it
Row(tn) ==
    [tracking_number |-> tn,
     status          |-> shipments[tn].status,
     delivered_at    |-> shipments[tn].delivered_at]

\* SELECT * FROM shipments WHERE status NOT IN (...) ORDER BY created_at DESC
getActiveShipments ==
    SelectSeq([i \in DOMAIN ByCreatedAtDesc |-> Row(ByCreatedAtDesc[i])],
              LAMBDA row : row.status \notin InactiveStatuses)

\* SELECT * FROM shipments WHERE tracking_number = $1
getByTrackingNumber(tn) == Row(tn)

\* UPDATE shipments SET status = $2, updated_at = NOW() [, delivered_at = $3]
\* [, voided_at = $n] WHERE tracking_number = $1.  extra.deliveredAt and
\* extra.voidedAt are NoTime when the caller left them out; voided_at is not
\* kept, the poller never passing extra.voidedAt.
updateShipmentStatus(trackingNumber, status, extra) ==
    [shipments EXCEPT ![trackingNumber] =
        [status       |-> status,
         delivered_at |-> IF extra.deliveredAt # NoTime
                          THEN extra.deliveredAt ELSE @.delivered_at]]

\* one entry of pkg.activity: status.type, status.code, date, time
Activity(t, c, d, tm) == [type |-> t, code |-> c, date |-> d, time |-> tm]

\* what the carrier may report: an in-transit scan, a delivery without a time,
\* a record without status, a scan without a date
InTransitScan  == Activity("I", "IP", "20240105", "101500")
Delivery       == Activity("D", "FS", "20240106", Null)
NoStatusRecord == Activity(Null, Null, "20240105", "101500")
NoDateScan     == Activity("I", "IP", Null, Null)
CarrierActivities == {InTransitScan, Delivery, NoStatusRecord, NoDateScan}

\* every activity list up to MaxActivities, most recent first
MaxActivities == 2
CarrierResponses == SeqsUpTo(CarrierActivities, MaxActivities)

\* the lists a shipment's history goes through while runs are in flight:
\* nothing yet, scanned in transit, delivered
LiveResponses == {<<>>, <<InTransitScan>>, <<Delivery, InTransitScan>>}

\* the dates (YYYYMMDD) new Date() can parse once the hyphens are put in; any
\* other text gives the Date object 'Invalid Date'
WellFormedDates == {"20240105", "20240106"}
InvalidDate == "Invalid Date"

\* new Date(`${dateStr}T${timeStr}Z`), null when the activity has no date;
\* a missing time is 00:00:00
ActivityTimestamp(date, time) ==
    IF Falsy(date) THEN Null
    ELSE IF date \notin WellFormedDates THEN InvalidDate
    ELSE date \o "T" \o (IF Falsy(time) THEN "000000" ELSE time) \o "Z"

\* value || null
OrNull(v) == IF Falsy(v) THEN Null ELSE v

\* SQL's = : a comparison with NULL is not true
SqlEq(a, b) == a # Null /\ b # Null /\ a = b

\* SELECT id FROM tracking_events WHERE tracking_number = $1
\*   AND activity_timestamp = $2 AND status_code = $3 LIMIT 1
\* (node-postgres sends undefined and null as NULL)
ExistingEvent(trackingNumber, activityTimestamp, statusCode) ==
    \E row \in BagToSet(tracking_events) :
        /\ SqlEq(row.tracking_number, trackingNumber)
        /\ SqlEq(row.activity_timestamp, OrNull(activityTimestamp))
        /\ SqlEq(row.status_code, OrNull(statusCode))

\* the row INSERT INTO tracking_events stores
EventRow(trackingNumber, activity) ==
    [tracking_number    |-> trackingNumber,
     status_code        |-> OrNull(activity.code),
     status_type        |-> OrNull(activity.type),
     activity_timestamp |-> OrNull(ActivityTimestamp(activity.date, activity.time))]

(***************************************************************************)
(*               pollAllShipments AND pollSingleShipment                   *)
(***************************************************************************)

\* the terminal statuses as the glossary lists them (for the history atRead)
TerminalStatuses == {"delivered", "voided", "returned", "exception_resolved"}
NotTerminalNow == {tn \in TrackingNumbers : shipments[tn].status \notin TerminalStatuses}

\* the shipment row the current poll of run r was given
Cur(r) == Head(queue[r])

\* activities[0].status?.type mapped by mapUpsStatus
NewStatusOf(acts) ==
    IF Len(acts) > 0 THEN mapUpsStatus(acts[1].type, acts[1].code)
    ELSE mapUpsStatus(Null, Null)

\* if (newStatus && newStatus !== shipment.status)
StatusChanged(shipment, status) == status # Null /\ status # shipment.status

\* a loop that records the most recent activity only
AfterActivityLatestOnly(r, acts, i) ==
    IF i < 1 /\ i < Len(acts)
    THEN [pc |-> "select", actIdx |-> i + 1, newStatus |-> newStatus[r]]
    ELSE LET ns == IF Len(acts) > 0 THEN mapUpsStatus(acts[1].type, acts[1].code)
                   ELSE mapUpsStatus(Null, Null)
         IN  [pc        |-> IF ns # Null /\ ns # Head(queue[r]).status
                            THEN "update" ELSE "next",
              actIdx    |-> i,
              newStatus |-> ns]

\* where pollSingleShipment stands after activity i of acts: at the next
\* insertEvent, or past the loop at updateShipmentStatus or at its return
AfterActivity(r, acts, i) ==
    IF i < Len(acts)
    THEN [pc |-> "select", actIdx |-> i + 1, newStatus |-> newStatus[r]]
    ELSE LET ns == NewStatusOf(acts)
         IN  [pc        |-> IF StatusChanged(Cur(r), ns) THEN "update" ELSE "next",
              actIdx    |-> i,
              newStatus |-> ns]

\* extra.deliveredAt = new Date() when newStatus === 'delivered'
ExtraAlways(status) == [deliveredAt |-> clock, voidedAt |-> NoTime]
Extra(status) ==
    [deliveredAt |-> IF status = "delivered" THEN clock ELSE NoTime,
     voidedAt    |-> NoTime]

\* the payload postTrackingUpdate builds from (shipment, newStatus)
Payload(shipment, status) ==
    [tracking_number |-> shipment.tracking_number,
     status          |-> status,
     previous_status |-> shipment.status]

\* run r enters pollSingleShipment for the first row of rows
EnterPoll(r, rows) ==
    /\ queue' = [queue EXCEPT ![r] = rows]
    /\ activities' = [activities EXCEPT ![r] = <<>>]
    /\ actIdx' = [actIdx EXCEPT ![r] = 0]
    /\ newStatus' = [newStatus EXCEPT ![r] = Null]
    /\ lastWrite' = [lastWrite EXCEPT ![r] = <<>>]
    /\ lastNote' = [lastNote EXCEPT ![r] = <<>>]
    /\ threw' = [threw EXCEPT ![r] = FALSE]
    /\ pc' = [pc EXCEPT ![r] = IF rows = <<>> THEN "done" ELSE "track"]

\* an invocation that waits for the runs in flight to finish
MayStartIfNoneInFlight(r) ==
    /\ started < MaxRuns
    /\ \A q \in Runs : pc[q] \in {"idle", "done"}
    /\ r = 1

\* a free slot, the lowest first
MayStart(r) ==
    /\ started < MaxRuns
    /\ pc[r] \in {"idle", "done"}
    /\ \A q \in Runs : q < r => pc[q] \notin {"idle", "done"}

\* pollAllShipments is invoked (start(), a timer tick, a direct call): it reads
\* the active shipments and calls pollSingleShipment for the first
StartBatch(r) ==
    /\ MayStart(r)
    /\ kind' = [kind EXCEPT ![r] = "batch"]
    /\ atRead' = [atRead EXCEPT ![r] = NotTerminalNow]
    /\ LET rows == getActiveShipments
       IN  /\ EnterPoll(r, rows)
           /\ polled' = [polled EXCEPT ![r] =
                  [tn \in TrackingNumbers |->
                      IF rows # <<>> /\ tn = Head(rows).tracking_number THEN 1 ELSE 0]]
    /\ started' = started + 1
    /\ updated' = [updated EXCEPT ![r] = 0]
    /\ errors' = [errors EXCEPT ![r] = 0]
    /\ UNCHANGED <<storeVars, timerVars, packVars, mapVars, routeVars, notifierVars, voidVars>>

\* POST /tracking/:trackingNumber/poll: the handler reads the shipment and
\* calls pollSingleShipment
ForcedPoll(r, tn) ==
    /\ MayStart(r)
    /\ kind' = [kind EXCEPT ![r] = "forced"]
    /\ atRead' = [atRead EXCEPT ![r] = NotTerminalNow]
    /\ EnterPoll(r, <<getByTrackingNumber(tn)>>)
    /\ polled' = [polled EXCEPT ![r] = [t \in TrackingNumbers |-> IF t = tn THEN 1 ELSE 0]]
    /\ started' = started + 1
    /\ updated' = [updated EXCEPT ![r] = 0]
    /\ errors' = [errors EXCEPT ![r] = 0]
    /\ UNCHANGED <<storeVars, timerVars, packVars, mapVars, routeVars, notifierVars, voidVars>>

\* upsService.trackShipment throws: the batch catches and counts it, the
\* forced-poll handler passes it to next(err)
TrackFails(r) ==
    /\ pc[r] = "track"
    /\ pc' = [pc EXCEPT ![r] = "next"]
    /\ threw' = [threw EXCEPT ![r] = TRUE]
    /\ UNCHANGED <<storeVars, kind, queue, activities, actIdx, newStatus,
                   histVars, updated, errors, timerVars, packVars, mapVars, routeVars,
                   notifierVars, voidVars>>

\* no trackResponse.shipment[0], or no package: pollSingleShipment returns
TrackNoData(r) ==
    /\ pc[r] = "track"
    /\ pc' = [pc EXCEPT ![r] = "next"]
    /\ UNCHANGED <<storeVars, kind, queue, activities, actIdx, newStatus,
                   histVars, countVars, timerVars, packVars, mapVars, routeVars, notifierVars,
                   voidVars>>

\* trackShipment returns the package's activity list acts
TrackReturns(r, acts) ==
    /\ pc[r] = "track"
    /\ LET n == AfterActivity(r, acts, 0)
       IN  /\ pc' = [pc EXCEPT ![r] = n.pc]
           /\ actIdx' = [actIdx EXCEPT ![r] = n.actIdx]
           /\ newStatus' = [newStatus EXCEPT ![r] = n.newStatus]
    /\ activities' = [activities EXCEPT ![r] = acts]
    /\ UNCHANGED <<storeVars, kind, queue, histVars, countVars, timerVars,
                   packVars, mapVars, routeVars, notifierVars, voidVars>>

\* insertEvent, first query: the SELECT; a row found, it returns null
InsertEventSelect(r) ==
    /\ pc[r] = "select"
    /\ LET a == activities[r][actIdx[r]]
           n == AfterActivity(r, activities[r], actIdx[r])
       IN  IF ExistingEvent(Cur(r).tracking_number,
                            ActivityTimestamp(a.date, a.time), a.code)
           THEN /\ pc' = [pc EXCEPT ![r] = n.pc]
                /\ actIdx' = [actIdx EXCEPT ![r] = n.actIdx]
                /\ newStatus' = [newStatus EXCEPT ![r] = n.newStatus]
           ELSE /\ pc' = [pc EXCEPT ![r] = "insert"]
                /\ UNCHANGED <<actIdx, newStatus>>
    /\ UNCHANGED <<storeVars, kind, queue, activities, histVars, countVars,
                   timerVars, packVars, mapVars, routeVars, notifierVars, voidVars>>

\* insertEvent, second query: the INSERT
InsertEventInsert(r) ==
    /\ pc[r] = "insert"
    /\ LET a == activities[r][actIdx[r]]
           n == AfterActivity(r, activities[r], actIdx[r])
       IN  /\ tracking_events' =
                tracking_events (+) SetToBag({EventRow(Cur(r).tracking_number, a)})
           /\ pc' = [pc EXCEPT ![r] = n.pc]
           /\ actIdx' = [actIdx EXCEPT ![r] = n.actIdx]
           /\ newStatus' = [newStatus EXCEPT ![r] = n.newStatus]
    /\ UNCHANGED <<shipments, clock, carrier, kind, queue, activities,
                   polled, atRead, lastWrite, lastNote, started, countVars,
                   timerVars, packVars, mapVars, routeVars, notifierVars, voidVars>>

\* a query of insertEvent rejects: insertEvent throws and so, nothing catching
\* it, does pollSingleShipment
InsertEventFails(r) ==
    /\ pc[r] \in {"select", "insert"}
    /\ pc' = [pc EXCEPT ![r] = "next"]
    /\ threw' = [threw EXCEPT ![r] = TRUE]
    /\ UNCHANGED <<storeVars, kind, queue, activities, actIdx, newStatus,
                   histVars, updated, errors, timerVars, packVars, mapVars, routeVars,
                   notifierVars, voidVars>>

\* await shipmentsDb.updateShipmentStatus(tracking_number, newStatus, extra)
UpdateStatus(r) ==
    /\ pc[r] = "update"
    /\ LET tn == Cur(r).tracking_number
           extra == Extra(newStatus[r])
       IN  /\ shipments' = updateShipmentStatus(tn, newStatus[r], extra)
           /\ clock' = IF extra.deliveredAt # NoTime THEN clock + 1 ELSE clock
           /\ lastWrite' = [lastWrite EXCEPT ![r] =
                  <<[tracking_number |-> tn,
                     from |-> shipments[tn].status,
                     to   |-> newStatus[r]]>>]
    /\ pc' = [pc EXCEPT ![r] = "notify"]
    /\ UNCHANGED <<tracking_events, carrier, kind, queue, activities, actIdx,
                   newStatus, polled, atRead, lastNote, started, countVars,
                   timerVars, packVars, mapVars, routeVars, notifierVars, voidVars>>

\* a notifier whose failure undoes the status write
PostTrackingUpdateRollingBack(r, success) ==
    /\ pc[r] = "notify"
    /\ lastNote' = [lastNote EXCEPT ![r] =
           <<[payload |-> Payload(Cur(r), newStatus[r]), success |-> success]>>]
    /\ shipments' = IF success THEN shipments
                    ELSE [shipments EXCEPT ![Cur(r).tracking_number].status = Cur(r).status]
    /\ pc' = [pc EXCEPT ![r] = "next"]
    /\ UNCHANGED <<tracking_events, clock, carrier, kind, queue, activities, actIdx,
                   newStatus, polled, atRead, lastWrite, started, countVars,
                   timerVars, packVars, mapVars, routeVars, notifierVars, voidVars>>

\* await bubbleService.postTrackingUpdate(shipment, newStatus, latestEvent);
\* success is the bubbleNotified it leaves
PostTrackingUpdate(r, success) ==
    /\ pc[r] = "notify"
    /\ lastNote' = [lastNote EXCEPT ![r] =
           <<[payload |-> Payload(Cur(r), newStatus[r]), success |-> success]>>]
    /\ pc' = [pc EXCEPT ![r] = "next"]
    /\ UNCHANGED <<storeVars, kind, queue, activities, actIdx, newStatus,
                   polled, atRead, lastWrite, started, countVars, timerVars,
                   packVars, mapVars, routeVars, notifierVars, voidVars>>

\* postTrackingUpdate throws: the catch around it logs, bubbleNotified stays false
PostTrackingUpdateThrows(r) ==
    /\ pc[r] = "notify"
    /\ lastNote' = [lastNote EXCEPT ![r] =
           <<[payload |-> Payload(Cur(r), newStatus[r]), success |-> FALSE]>>]
    /\ pc' = [pc EXCEPT ![r] = "next"]
    /\ UNCHANGED <<storeVars, kind, queue, activities, actIdx, newStatus,
                   polled, atRead, lastWrite, started, countVars, timerVars,
                   packVars, mapVars, routeVars, notifierVars, voidVars>>

\* the rows run r still has to poll once the current call is over: the for..of
\* of pollAllShipments goes on whether the call returned or threw
RowsAfterStoppingOnError(r) ==
    IF kind[r] = "batch" /\ ~threw[r] THEN Tail(queue[r]) ELSE <<>>
RowsAfter(r) == IF kind[r] = "batch" THEN Tail(queue[r]) ELSE <<>>

\* pollSingleShipment is over.  A batch counts the call (updated++, or
\* errors++ in its catch), waits its 500 ms (more than one active shipment) and
\* goes on to the next row; a forced poll answers the request.
NextShipment(r) ==
    /\ pc[r] = "next"
    /\ updated' = IF kind[r] = "batch" /\ ~threw[r]
                  THEN [updated EXCEPT ![r] = @ + 1] ELSE updated
    /\ errors' = IF kind[r] = "batch" /\ threw[r]
                 THEN [errors EXCEPT ![r] = @ + 1] ELSE errors
    /\ LET rows == RowsAfter(r)
       IN  /\ EnterPoll(r, rows)
           /\ polled' = IF rows = <<>> THEN polled
                        ELSE [polled EXCEPT ![r][Head(rows).tracking_number] = @ + 1]
    /\ UNCHANGED <<storeVars, kind, atRead, started, timerVars, packVars, mapVars, routeVars,
                   notifierVars, voidVars>>

\* ---- the poller with the carrier free to answer anything at any time ----

\* the shipments a store may hold at start
InitialStatuses == {"created", "voided", "returned", "exception_resolved"}
InitialShipments ==
    [TrackingNumbers ->
        {[status |-> st, delivered_at |-> NoTime] : st \in InitialStatuses}]

Init ==
    /\ shipments \in InitialShipments
    /\ tracking_events = EmptyBag
    /\ clock = 1
    /\ carrier = [tn \in TrackingNumbers |-> <<>>]
    /\ NoRun
    /\ PackIdle
    /\ MapIdle
    /\ RouteIdle
    /\ NotifierIdle
    /\ VoidIdle

Next ==
    \E r \in Runs :
        \/ StartBatch(r)
        \/ \E tn \in TrackingNumbers : ForcedPoll(r, tn)
        \/ TrackFails(r)
        \/ TrackNoData(r)
        \/ \E acts \in LiveResponses : TrackReturns(r, acts)
        \/ InsertEventSelect(r)
        \/ InsertEventInsert(r)
        \/ InsertEventFails(r)
        \/ UpdateStatus(r)
        \/ \E success \in BOOLEAN : PostTrackingUpdate(r, success)
        \/ PostTrackingUpdateThrows(r)
        \/ NextShipment(r)

Spec == Init /\ [][Next]_vars

\* ---- the poller run after run, the carrier's data fixed ----

InitSeq ==
    /\ shipments \in InitialShipments
    /\ tracking_events = EmptyBag
    /\ clock = 1
    /\ carrier \in [TrackingNumbers -> CarrierResponses]
    /\ NoRun
    /\ PackIdle
    /\ MapIdle
    /\ RouteIdle
    /\ NotifierIdle
    /\ VoidIdle

NoRunInFlight == \A r \in Runs : pc[r] \in {"idle", "done"}

NextSeq ==
    \E r \in Runs :
        \/ NoRunInFlight /\ StartBatch(r)
        \/ pc[r] = "track" /\ TrackReturns(r, carrier[Cur(r).tracking_number])
        \/ InsertEventSelect(r)
        \/ InsertEventInsert(r)
        \/ UpdateStatus(r)
        \/ \E success \in BOOLEAN : PostTrackingUpdate(r, success)
        \/ NextShipment(r)

SpecSeq == InitSeq /\ [][NextSeq]_vars

\* ---- the poller as index.js runs it: start(), stop(), the interval ----

\* pollAllShipments is called: it runs up to its first await, the query of
\* getActiveShipments, and hands control back to its caller
pollAllShipments(r) ==
    /\ MayStart(r)
    /\ pc' = [pc EXCEPT ![r] = "read"]
    /\ kind' = [kind EXCEPT ![r] = "batch"]
    /\ queue' = [queue EXCEPT ![r] = <<>>]
    /\ activities' = [activities EXCEPT ![r] = <<>>]
    /\ actIdx' = [actIdx EXCEPT ![r] = 0]
    /\ newStatus' = [newStatus EXCEPT ![r] = Null]
    /\ threw' = [threw EXCEPT ![r] = FALSE]
    /\ updated' = [updated EXCEPT ![r] = 0]
    /\ errors' = [errors EXCEPT ![r] = 0]
    /\ polled' = [polled EXCEPT ![r] = [tn \in TrackingNumbers |-> 0]]
    /\ atRead' = [atRead EXCEPT ![r] = {}]
    /\ lastWrite' = [lastWrite EXCEPT ![r] = <<>>]
    /\ lastNote' = [lastNote EXCEPT ![r] = <<>>]
    /\ started' = started + 1
    /\ UNCHANGED <<storeVars, packVars, mapVars, routeVars, notifierVars, voidVars>>

\* await shipmentsDb.getActiveShipments() resolves: the for..of begins
GetActiveShipments(r) ==
    /\ pc[r] = "read"
    /\ atRead' = [atRead EXCEPT ![r] = NotTerminalNow]
    /\ LET rows == getActiveShipments
       IN  /\ EnterPoll(r, rows)
           /\ polled' = [polled EXCEPT ![r] =
                  [tn \in TrackingNumbers |->
                      IF rows # <<>> /\ tn = Head(rows).tracking_number THEN 1 ELSE 0]]
    /\ UNCHANGED <<storeVars, kind, started, updated, errors, timerVars,
                   packVars, mapVars, routeVars, notifierVars, voidVars>>

\* await shipmentsDb.getActiveShipments() rejects: the outer catch logs
\* 'Poll failed' and pollAllShipments returns
GetActiveShipmentsFails(r) ==
    /\ pc[r] = "read"
    /\ pc' = [pc EXCEPT ![r] = "done"]
    /\ UNCHANGED <<storeVars, kind, queue, activities, actIdx, newStatus,
                   histVars, countVars, timerVars, packVars, mapVars, routeVars, notifierVars,
                   voidVars>>

\* a failing status write that is swallowed, the poll going on to notify
UpdateStatusFailsSwallowed(r) ==
    /\ pc[r] = "update"
    /\ pc' = [pc EXCEPT ![r] = "notify"]
    /\ UNCHANGED <<storeVars, kind, queue, activities, actIdx, newStatus,
                   histVars, countVars, timerVars, packVars, mapVars, routeVars, notifierVars,
                   voidVars>>

\* await shipmentsDb.updateShipmentStatus(...) rejects: nothing catching it,
\* pollSingleShipment throws
UpdateStatusFails(r) ==
    /\ pc[r] = "update"
    /\ pc' = [pc EXCEPT ![r] = "next"]
    /\ threw' = [threw EXCEPT ![r] = TRUE]
    /\ UNCHANGED <<storeVars, kind, queue, activities, actIdx, newStatus,
                   histVars, updated, errors, timerVars, packVars, mapVars, routeVars,
                   notifierVars, voidVars>>

\* a start() without the pollTimer check
startUnguarded ==
    /\ \E r \in Runs : pollAllShipments(r)
    /\ pollTimer' = TRUE
    /\ armed' = armed + 1

\* start(): if (pollTimer) return; pollAllShipments();
\* pollTimer = setInterval(pollAllShipments, POLL_INTERVAL_MS)
start ==
    IF pollTimer
    THEN UNCHANGED vars
    ELSE /\ \E r \in Runs : pollAllShipments(r)
         /\ pollTimer' = TRUE
         /\ armed' = armed + 1

\* stop(): if (pollTimer) { clearInterval(pollTimer); pollTimer = null }
stop ==
    IF pollTimer
    THEN /\ pollTimer' = FALSE
         /\ armed' = armed - 1
         /\ UNCHANGED <<storeVars, runVars, histVars, countVars,
                        packVars, mapVars, routeVars, notifierVars, voidVars>>
    ELSE UNCHANGED vars

\* an interval set by setInterval(pollAllShipments, POLL_INTERVAL_MS) elapses
TimerTick ==
    /\ armed > 0
    /\ \E r \in Runs : pollAllShipments(r)
    /\ UNCHANGED timerVars

NextTimer ==
    \/ start
    \/ stop
    \/ TimerTick
    \/ \E r \in Runs :
        \/ GetActiveShipments(r)
        \/ \E acts \in LiveResponses : TrackReturns(r, acts)
        \/ InsertEventSelect(r)
        \/ InsertEventInsert(r)
        \/ UpdateStatus(r)
        \/ \E success \in BOOLEAN : PostTrackingUpdate(r, success)
        \/ NextShipment(r)

SpecTimer == Init /\ [][NextTimer]_vars

\* ---- batches one after another, the stores free to fail ----

NextFail ==
    \E r \in Runs :
        \/ NoRunInFlight /\ pollAllShipments(r) /\ UNCHANGED timerVars
        \/ GetActiveShipments(r)
        \/ GetActiveShipmentsFails(r)
        \/ \E acts \in LiveResponses : TrackReturns(r, acts)
        \/ InsertEventSelect(r)
        \/ InsertEventInsert(r)
        \/ InsertEventFails(r)
        \/ UpdateStatus(r)
        \/ UpdateStatusFails(r)
        \/ \E success \in BOOLEAN : PostTrackingUpdate(r, success)
        \/ NextShipment(r)

SpecFail == Init /\ [][NextFail]_vars

(***************************************************************************)
(*        bubbleService.postTrackingUpdate, as a poll calls it             *)
(***************************************************************************)

\* a scan whose date is not YYYYMMDD
MalformedDateScan == Activity("I", "IP", "2024-1-5", "101500")

\* the most recent activity of a poll that goes on to notify: its status type
\* maps to a status
NotifiedActivities == {InTransitScan, Delivery, NoDateScan, MalformedDateScan}

\* the shipment row a poll holds
NotifiedShipments ==
    [tracking_number : TrackingNumbers,
     status          : {"created", "out_for_delivery"},
     delivered_at    : {NoTime}]

\* how the fetch of postTrackingUpdate may settle: the request fails, the
\* 15 s AbortSignal fires, response.text() rejects, or a response with a
\* status code arrives.  An outcome is [error, status]: the message of the
\* error with status 0, or "" with the status code of the response.
FetchErrors == {"network error", "timeout", "body unreadable"}
ResponseCodes == {200, 204, 302, 404, 500}
FetchFailures == {[error |-> e, status |-> 0] : e \in FetchErrors}
FetchOutcomes ==
    FetchFailures \cup {[error |-> "", status |-> c] : c \in ResponseCodes}

\* response.ok
ResponseOk(code) == code >= 200 /\ code <= 299

\* Date.prototype.toISOString of an activity instant
ToISOString(ts) ==
    CASE ts = "20240105T101500Z" -> "2024-01-05T10:15:00.000Z"
      [] ts = "20240105T000000Z" -> "2024-01-05T00:00:00.000Z"
      [] ts = "20240106T000000Z" -> "2024-01-06T00:00:00.000Z"
      [] OTHER -> ts

\* latestEvent.activityTimestamp as pollSingleShipment builds it
LatestTimestamp(activity) == ActivityTimestamp(activity.date, activity.time)

\* the payload: tracking number, status, previous_status and latest_event
NotePayload(shipment, status, activity) ==
    [tracking_number |-> shipment.tracking_number,
     status          |-> status,
     previous_status |-> shipment.status,
     latest_event    |->
         [timestamp |-> IF LatestTimestamp(activity) = Null THEN Null
                        ELSE ToISOString(LatestTimestamp(activity))]]

InitNotify ==
    /\ notePc = "insert"
    /\ noteEnv \in BOOLEAN
    /\ noteCall \in [shipment : NotifiedShipments, activity : NotifiedActivities]
    /\ outbound = <<>>
    /\ noteOutcome = <<>>
    /\ noteResult = <<>>
    /\ PackIdle
    /\ MapIdle
    /\ PollIdle
    /\ RouteIdle
    /\ VoidIdle

\* the poll hands activities[0] to insertEvent before it gets to the status:
\* an Invalid Date as query parameter makes the query reject, the poll throws
\* and the notifier is not called
NoteInsertEvent ==
    /\ notePc = "insert"
    /\ notePc' = IF LatestTimestamp(noteCall.activity) = InvalidDate
                 THEN "aborted" ELSE "call"
    /\ UNCHANGED <<noteEnv, noteCall, outbound, noteOutcome, noteResult,
                   packVars, mapVars, pollVars, routeVars, voidVars>>

\* postTrackingUpdate up to its await: not configured, it returns; else it
\* builds url and payload (toISOString throws a RangeError on an Invalid
\* Date, before the try) and calls fetch
postTrackingUpdate ==
    /\ notePc = "call"
    /\ LET status == mapUpsStatus(noteCall.activity.type, noteCall.activity.code)
       IN  IF ~noteEnv
           THEN /\ noteResult' = <<[success    |-> FALSE,
                                     statusCode |-> 0,
                                     error      |-> "Bubble not configured"]>>
                /\ notePc' = "returned"
                /\ UNCHANGED outbound
           ELSE IF LatestTimestamp(noteCall.activity) = InvalidDate
           THEN /\ notePc' = "thrown"
                /\ UNCHANGED <<outbound, noteResult>>
           ELSE /\ outbound' = Append(outbound,
                                      NotePayload(noteCall.shipment, status, noteCall.activity))
                /\ notePc' = "fetch"
                /\ UNCHANGED noteResult
    /\ UNCHANGED <<noteEnv, noteCall, noteOutcome, packVars, mapVars, pollVars, routeVars,
                   voidVars>>

\* a fetch whose rejection is not caught
FetchSettlesUncaught(outcome) ==
    /\ notePc = "fetch"
    /\ noteOutcome' = <<outcome>>
    /\ IF outcome \in FetchFailures
       THEN notePc' = "thrown" /\ UNCHANGED noteResult
       ELSE /\ noteResult' = <<[success    |-> ResponseOk(outcome.status),
                              statusCode |-> outcome.status,
                              error      |-> ""]>>
            /\ notePc' = "returned"
    /\ UNCHANGED <<noteEnv, noteCall, outbound, packVars, mapVars, pollVars, routeVars, voidVars>>

\* the try block: fetch and response.text() settle; a rejection is caught
\* and returned as { success: false, error }, a response is returned with
\* success: response.ok (a field the code leaves out is 0 or "")
FetchSettles(outcome) ==
    /\ notePc = "fetch"
    /\ noteOutcome' = <<outcome>>
    /\ noteResult' =
          IF outcome \in FetchFailures
          THEN <<[success |-> FALSE, statusCode |-> 0, error |-> outcome.error]>>
          ELSE <<[success    |-> ResponseOk(outcome.status),
                  statusCode |-> outcome.status,
                  error      |-> ""]>>
    /\ notePc' = "returned"
    /\ UNCHANGED <<noteEnv, noteCall, outbound, packVars, mapVars, pollVars, routeVars, voidVars>>

NextNotify ==
    \/ NoteInsertEvent
    \/ postTrackingUpdate
    \/ \E outcome \in FetchOutcomes : FetchSettles(outcome)

SpecNotify == InitNotify /\ [][NextNotify]_vars

(***************************************************************************)
(* Claims about the poller                                                 *)
(***************************************************************************)

\* run r leaves the part of pollSingleShipment before the comparison: it goes
\* on to updateShipmentStatus ("update") or returns ("next")
Decides(r) ==
    /\ pc[r] \in {"track", "select", "insert"}
    /\ pc'[r] \in {"update", "next"}

\* C4: pollSingleShipment goes on to write the status if and only if the
\* status mapped from the carrier's most recent activity is non-null and
\* differs from the status the store holds for the shipment at that moment.
C4_WriteIffMappedDiffersFromPersisted ==
    [][\A r \in Runs :
          Decides(r) =>
              LET tn     == Cur(r).tracking_number
                  mapped == NewStatusOf(activities'[r])
              IN  (pc'[r] = "update")
                    <=> (mapped # Null /\ mapped # shipments[tn].status)]_vars

\* C5: with unchanged carrier data, the second of two batches run one after
\* the other writes no status, sends no notification and inserts no event.
C5_SecondRunHasNoEffect ==
    [][(started = 2 /\ ~NoRunInFlight) =>
          /\ shipments' = shipments
          /\ tracking_events' = tracking_events
          /\ \A r \in Runs : lastNote'[r] # <<>> => lastNote'[r] = lastNote[r]]_vars

\* the (trackingNumber, activityTimestamp, statusCode) triple of a stored row
TripleOf(row) == <<row.tracking_number, row.activity_timestamp, row.status_code>>

\* how many stored events carry the triple of row
EventsWithTripleOf(row) ==
    BagCardinality([r \in {x \in BagToSet(tracking_events) : TripleOf(x) = TripleOf(row)}
                       |-> CopiesIn(r, tracking_events)])

\* C6: at most one stored tracking event per (trackingNumber,
\* activityTimestamp, statusCode) triple, insertEvent called again with a
\* stored triple inserting nothing.
C6_OneEventPerTriple ==
    \A row \in BagToSet(tracking_events) : EventsWithTripleOf(row) = 1

\* C7: the notifier is invoked in a poll exactly when that poll wrote the
\* status, after the write, and its payload carries the written status and,
\* as previous_status, the status the shipment had before that write.
C7_NotifiedWithStatusBeforeTransition ==
    \A r \in Runs :
        /\ lastNote[r] # <<>> =>
              /\ lastWrite[r] # <<>>
              /\ lastNote[r][1].payload.tracking_number = lastWrite[r][1].tracking_number
              /\ lastNote[r][1].payload.status = lastWrite[r][1].to
              /\ lastNote[r][1].payload.previous_status = lastWrite[r][1].from
        /\ (pc[r] = "next" /\ lastWrite[r] # <<>>) => lastNote[r] # <<>>
        /\ pc[r] = "notify" => lastWrite[r] # <<>>

\* run r's status write to shipment tn happens in this step
Writes(r, tn) ==
    /\ pc[r] = "update"
    /\ pc'[r] = "notify"
    /\ Cur(r).tracking_number = tn

\* C9: a status write that sets delivered stamps delivered_at with the
\* current instant in the same update; a status write to any other status
\* leaves delivered_at as it was; nothing else changes a shipment row.
C9_DeliveredAtStampedOnDelivered ==
    [][\A tn \in TrackingNumbers :
          IF \E r \in Runs : Writes(r, tn)
          THEN IF shipments'[tn].status = "delivered"
               THEN /\ shipments'[tn].delivered_at = clock
                    /\ shipments'[tn].delivered_at # NoTime
                    /\ clock' > clock
               ELSE shipments'[tn].delivered_at = shipments[tn].delivered_at
          ELSE shipments'[tn] = shipments[tn]]_vars

\* a shipment that was stamped on delivery and then written to another status
\* by a poll holding an older row, its delivered_at kept
C9_Witness ==
    \E tn \in TrackingNumbers :
        /\ shipments[tn].status = "in_transit"
        /\ shipments[tn].delivered_at # NoTime

Steps(r) ==
    <<pc[r], queue[r], actIdx[r]>> # <<pc'[r], queue'[r], actIdx'[r]>>

\* the batch run r goes on after the current call: the next row of the active
\* list is polled, or the list being over the batch completes
GoesOn(r) ==
    IF Len(queue[r]) > 1
    THEN /\ pc'[r] = "track"
         /\ queue'[r] = Tail(queue[r])
         /\ polled'[r][queue[r][2].tracking_number] = 1
    ELSE pc'[r] = "done"

\* C11: a carrier failure in a batch is caught and counted in errors, not in
\* updated; the batch goes on to the next shipment of its list and completes,
\* every active shipment having been counted once.
C11_CarrierFailureDoesNotAbortBatch ==
    [][\A r \in Runs :
          /\ (kind[r] = "batch" /\ pc[r] = "next" /\ threw[r] /\ Steps(r)) =>
                /\ errors'[r] = errors[r] + 1
                /\ updated'[r] = updated[r]
                /\ GoesOn(r)
                /\ shipments' = shipments
          /\ (kind'[r] = "batch" /\ pc'[r] = "done") =>
                /\ updated'[r] + errors'[r] = Cardinality(atRead'[r])
                /\ \A tn \in atRead'[r] : polled'[r][tn] = 1]_vars

\* a batch polling its second shipment after the poll of the first threw
C11_Witness ==
    \E r \in Runs :
        /\ kind[r] = "batch"
        /\ pc[r] = "track"
        /\ errors[r] = 1
        /\ updated[r] = 0
        /\ Len(queue[r]) = 1
        /\ \A tn \in TrackingNumbers : polled[r][tn] = 1

\* the notifier call of run r ends in this step without success
NotificationFails(r) ==
    /\ pc[r] = "notify"
    /\ pc'[r] # "notify"
    /\ lastNote'[r] # <<>> => ~lastNote'[r][1].success

\* C12: a failed notification (success false, or a throw) leaves the shipment
\* rows and the tracking events as they were, pollSingleShipment returns
\* normally, and a batch counts the call as updated and goes on.
C12_NotificationFailureKeepsState ==
    [][\A r \in Runs :
          /\ NotificationFails(r) =>
                /\ shipments' = shipments
                /\ tracking_events' = tracking_events
                /\ lastWrite'[r] = lastWrite[r]
                /\ lastNote'[r] # <<>>
                /\ pc'[r] = "next"
                /\ ~threw'[r]
          /\ (kind[r] = "batch" /\ pc[r] = "next" /\ ~threw[r] /\ Steps(r)) =>
                /\ updated'[r] = updated[r] + 1
                /\ errors'[r] = errors[r]
                /\ GoesOn(r)
                /\ shipments' = shipments
                /\ tracking_events' = tracking_events]_vars

\* a batch whose notification has failed, the status it wrote still in the
\* store and another shipment still to poll
C12_Witness ==
    \E r \in Runs :
        /\ kind[r] = "batch"
        /\ pc[r] = "next"
        /\ lastNote[r] # <<>>
        /\ ~lastNote[r][1].success
        /\ lastWrite[r] # <<>>
        /\ shipments[Cur(r).tracking_number].status = lastWrite[r][1].to
        /\ Len(queue[r]) = 2

\* run r starts a carrier call for shipment tn in this step
StartsPollOf(r, tn) ==
    /\ pc'[r] = "track"
    /\ Steps(r)
    /\ Head(queue'[r]).tracking_number = tn

\* C13: once a shipment's persisted status is delivered, voided, returned or
\* exception_resolved, no batch and no forced poll starts a carrier call for
\* it and its status does not change again.
C13_TerminalStatusIsFinal ==
    [][\A tn \in TrackingNumbers :
          shipments[tn].status \in TerminalStatuses =>
              /\ shipments'[tn].status = shipments[tn].status
              /\ \A r \in Runs : ~StartsPollOf(r, tn)]_vars

\* C20: all of the carrier's activities of a poll have been handed to the event
\* store, and are stored, before the status write and the notification of that
\* poll; no insertEvent call follows them; a poll that threw (insertEvent
\* failing) has written no status and sent no notification.
C20_EventsRecordedBeforeTransition ==
    \A r \in Runs :
        /\ (pc[r] \in {"update", "notify"} \/ lastWrite[r] # <<>> \/ lastNote[r] # <<>>) =>
              /\ actIdx[r] = Len(activities[r])
              /\ \A i \in 1..Len(activities[r]) :
                    BagIn(EventRow(Cur(r).tracking_number, activities[r][i]),
                          tracking_events)
        /\ pc[r] \in {"track", "select", "insert"} =>
              lastWrite[r] = <<>> /\ lastNote[r] = <<>>
        /\ threw[r] => lastWrite[r] = <<>> /\ lastNote[r] = <<>>

\* a poll about to notify, the carrier having returned two activities, the
\* older one stored too
C20_Witness ==
    \E r \in Runs :
        /\ pc[r] = "notify"
        /\ Len(activities[r]) = 2
        /\ BagIn(EventRow(Cur(r).tracking_number, activities[r][2]), tracking_events)

\* the response run r holds has a most recent activity without statusType
LatestHasNoStatusType(acts) == Len(acts) > 0 /\ Falsy(acts[1].type)

\* an event with the triple of row is stored
TripleStored(row) ==
    \E x \in BagToSet(tracking_events) : TripleOf(x) = TripleOf(row)

\* a poll whose most recent activity has no statusType neither writes a status
\* nor notifies
NoStatusTypeNoTransition ==
    [][\A r \in Runs :
          LatestHasNoStatusType(activities'[r]) =>
              /\ pc'[r] \notin {"update", "notify"}
              /\ shipments' = shipments
              /\ lastWrite'[r] = <<>>
              /\ lastNote'[r] = <<>>]_vars

\* C21: when the carrier's most recent activity has no statusType the poll
\* writes no status and sends no notification, and insertEvent stores an
\* activity of the response exactly when it has a timestamp and no event with
\* the same (trackingNumber, activityTimestamp, statusCode) is stored.
C21_NoStatusTypeRecordsEventsOnly ==
    [][\A r \in Runs :
          /\ LatestHasNoStatusType(activities'[r]) =>
                /\ pc'[r] \notin {"update", "notify"}
                /\ shipments' = shipments
                /\ lastNote'[r] = <<>>
          /\ (pc[r] = "select" /\ LatestHasNoStatusType(activities[r]) /\ Steps(r)) =>
                LET row == EventRow(Cur(r).tracking_number, activities[r][actIdx[r]])
                IN  (pc'[r] = "insert")
                      <=> (row.activity_timestamp # Null /\ ~TripleStored(row))]_vars

\* run r is a batch that has been invoked and has not completed
BatchInFlight(r) == kind[r] = "batch" /\ pc[r] \notin {"idle", "done"}

\* the model can follow one more invocation
CanFollowAnotherRun ==
    /\ started < MaxRuns
    /\ \E r \in Runs : pc[r] \in {"idle", "done"}

\* C22: nothing keeps pollAllShipments from being invoked while a batch is in
\* flight: a tick of the armed interval, or a start() after a stop(), begins
\* a second batch; the pollTimer check of start() keeps the armed intervals
\* at one at most, pollTimer holding the handle of the armed one.
C22_NoInFlightGuard ==
    /\ armed \in {0, 1}
    /\ (armed = 1) <=> pollTimer
    /\ ((\E q \in Runs : BatchInFlight(q)) /\ CanFollowAnotherRun) =>
          /\ armed > 0 => ENABLED TimerTick
          /\ ~pollTimer => ENABLED start

\* two batches in flight at the same time, both polling the same shipment
C22_Witness ==
    \E r1, r2 \in Runs :
        /\ r1 # r2
        /\ BatchInFlight(r1) /\ BatchInFlight(r2)
        /\ pc[r1] \in {"select", "insert", "update", "notify"}
        /\ pc[r2] \in {"track", "select", "insert", "update", "notify"}
        /\ Cur(r1).tracking_number = Cur(r2).tracking_number
        /\ armed = 1

\* C23: polls of the same shipment that overlap and see the same activity
\* leave at most one stored event per (trackingNumber, activityTimestamp,
\* statusCode) triple.  Stated for the triples without a NULL, which the
\* SELECT of insertEvent matches when the row is there.
C23_OneEventPerTripleUnderInterleaving ==
    \A row \in BagToSet(tracking_events) :
        (row.activity_timestamp # Null /\ row.status_code # Null) =>
            EventsWithTripleOf(row) <= 1

\* the current polls of runs r1 and r2 are of the same shipment, were handed
\* the same persisted status and have mapped the same carrier status
SameStatusChange(r1, r2) ==
    /\ r1 # r2
    /\ queue[r1] # <<>> /\ queue[r2] # <<>>
    /\ Cur(r1).tracking_number = Cur(r2).tracking_number
    /\ Cur(r1).status = Cur(r2).status
    /\ newStatus[r1] # Null
    /\ newStatus[r1] = newStatus[r2]

\* C24: of two overlapping polls of a shipment that start from the same
\* persisted status and see the same carrier status, at most one writes the
\* status and at most one notifies (so delivered_at is stamped once).
C24_StatusChangeWrittenOnce ==
    \A r1, r2 \in Runs :
        SameStatusChange(r1, r2) =>
            /\ ~(lastWrite[r1] # <<>> /\ lastWrite[r2] # <<>>)
            /\ ~(lastNote[r1] # <<>> /\ lastNote[r2] # <<>>)

\* the current pollSingleShipment call of run r throws in this step
PollThrows(r) == ~threw[r] /\ threw'[r]

\* C25: a failing insertEvent or updateShipmentStatus ends the poll of that
\* shipment there (no status write after a failed insert, no notification
\* after a failed write) and changes no stored row; the batch counts the
\* error and goes on to its remaining shipments; a failing
\* getActiveShipments ends the batch, nothing polled, pollAllShipments
\* completing normally.
C25_StoreFailureAbortsOnePoll ==
    [][\A r \in Runs :
          /\ PollThrows(r) =>
                /\ pc[r] \in {"select", "insert", "update"}
                /\ pc'[r] = "next"
                /\ shipments' = shipments
                /\ tracking_events' = tracking_events
                /\ lastWrite'[r] = <<>>
                /\ lastNote'[r] = <<>>
          /\ pc'[r] \in {"update", "notify"} => ~threw'[r]
          /\ pc'[r] = "notify" => lastWrite'[r] # <<>>
          /\ (kind[r] = "batch" /\ pc[r] = "next" /\ threw[r] /\ Steps(r)) =>
                /\ errors'[r] = errors[r] + 1
                /\ updated'[r] = updated[r]
                /\ GoesOn(r)
                /\ shipments' = shipments
                /\ tracking_events' = tracking_events
          /\ (pc[r] = "read" /\ Steps(r)) =>
                /\ pc'[r] \in {"track", "done"}
                /\ shipments' = shipments
                /\ tracking_events' = tracking_events
                /\ pc'[r] = "done" =>
                      /\ queue'[r] = <<>>
                      /\ \A tn \in TrackingNumbers : polled'[r][tn] = 0
          /\ (kind'[r] = "batch" /\ pc'[r] = "done" /\ atRead'[r] # {}) =>
                /\ updated'[r] + errors'[r] = Cardinality(atRead'[r])
                /\ \A tn \in atRead'[r] : polled'[r][tn] = 1]_vars

\* a batch polling its second shipment after the status write of the first
\* failed: the first shipment's event is stored, its status is not written
C25_Witness ==
    \E r \in Runs :
        /\ kind[r] = "batch"
        /\ pc[r] = "track"
        /\ errors[r] = 1
        /\ updated[r] = 0
        /\ Len(queue[r]) = 1
        /\ \E tn \in TrackingNumbers :
              /\ tn # Cur(r).tracking_number
              /\ shipments[tn].status = "created"
              /\ BagIn(EventRow(tn, InTransitScan), tracking_events)
              /\ ~BagIn(EventRow(tn, Delivery), tracking_events)

\* exactly one run is invoked in this step, the runs in flight going on as
\* they were
OneBatchInvoked ==
    /\ started' = started + 1
    /\ \E r \in Runs :
          /\ pc[r] \in {"idle", "done"}
          /\ pc'[r] = "read"
          /\ kind'[r] = "batch"
          /\ \A q \in Runs \ {r} :
                <<pc'[q], kind'[q], queue'[q]>> = <<pc[q], kind[q], queue[q]>>

\* C28: start() with no interval armed invokes one batch at once and arms one
\* interval; with the interval armed it invokes nothing and arms nothing more
\* (never two intervals); stop() disarms it and leaves the runs in flight as
\* they are; while no interval is armed no batch is invoked, until a start()
\* invokes one and arms an interval again.
C28_StartStopArmOneTimer ==
    [][/\ armed' \in {0, 1}
       /\ (armed' = 1) <=> pollTimer'
       /\ (~pollTimer /\ pollTimer') => OneBatchInvoked
       /\ (pollTimer /\ pollTimer' /\ started' # started) =>
             OneBatchInvoked /\ armed' = armed
       /\ (pollTimer /\ ~pollTimer') =>
             /\ armed' = 0
             /\ UNCHANGED <<storeVars, runVars, histVars, countVars>>
       /\ (~pollTimer /\ ~pollTimer') => started' = started]_vars

\* stop() has been called while the batch that start() invoked is in flight:
\* no interval is armed and the batch is about to notify
C28_Witness ==
    /\ ~pollTimer
    /\ armed = 0
    /\ started = 1
    /\ \E r \in Runs : BatchInFlight(r) /\ pc[r] = "notify"

DigitParts == {"1", "4", "16", "20", "25"}
\* a decimal numeral and a negative one
OtherParts == {"16.0", "-1"}

\* parseFloat(s) of a part
parseFloat(s) ==
    CASE s = "1"    -> 1
      [] s = "4"    -> 4
      [] s = "16"   -> 16
      [] s = "20"   -> 20
      [] s = "25"   -> 25
      [] s = "16.0" -> 16
      [] s = "-1"   -> -1

\* the longest prefix of a part that \d+ matches, "" when there is none
LeadingDigits(s) ==
    IF s \in DigitParts THEN s
    ELSE IF s = "16.0" THEN "16"
    ELSE ""

\* a size token is kept as the sequence of its x-separated parts:
\* <<"16", "25", "4">> is the text 16x25x4
GoodSizes  == {<<"16", "25", "4">>, <<"20", "20", "1">>}
ShortSize  == <<"16", "25">>
NegativeSize == <<"16", "25", "-1">>
DecimalSize == <<"16.0", "25", "1">>
SizeTokens == GoodSizes \cup {ShortSize, NegativeSize, DecimalSize}

\* the address texts of the requests; the last one has no state and no zip
GoodAddresses == {"12 Elm St, Troy, NY, 12180", "9 Oak Ave, Reno, NV, 89501-1234"}
BadAddress == "Elm St Troy"
AddressTexts == GoodAddresses \cup {BadAddress}

\* addressStr.match(/^(.+),\s*(.+),\s*([A-Z]{2}),\s*(\d{5}(?:-\d{4})?)$/):
\* <<>> for null, else the parsed address, the postal code cut to 5 digits
parseAddress(addressStr) ==
    CASE addressStr = "12 Elm St, Troy, NY, 12180" ->
            <<[street |-> "12 Elm St", city |-> "Troy", state |-> "NY",
               postalCode |-> "12180", raw |-> addressStr]>>
      [] addressStr = "9 Oak Ave, Reno, NV, 89501-1234" ->
            <<[street |-> "9 Oak Ave", city |-> "Reno", state |-> "NV",
               postalCode |-> "89501", raw |-> addressStr]>>
      [] OTHER -> <<>>

\* sizeStr.trim().split('x').map(parseFloat): <<>> for null (not 3 parts)
parseFilterSize(sizeStr) ==
    IF Len(sizeStr) = 3
    THEN <<[length |-> parseFloat(sizeStr[1]),
            width  |-> parseFloat(sizeStr[2]),
            depth  |-> parseFloat(sizeStr[3])]>>
    ELSE <<>>

\* entry.match(/size:\s*(\d+x\d+x\d+)/i): <<>> for no match, else <<the
\* captured text>>, which ends where the digits of the third part end
SizeMatch(size) ==
    IF /\ Len(size) >= 3
       /\ size[1] \in DigitParts
       /\ size[2] \in DigitParts
       /\ LeadingDigits(size[3]) # ""
    THEN <<(<<size[1], size[2], LeadingDigits(size[3])>>)>>
    ELSE <<>>

\* ---- the three shapes of req.body ----

\* the items a client wants quoted: (address, size) pairs
MaxItems == 2
Items == [address : AddressTexts, size : SizeTokens]
Formats == {"filters", "delimited", "arrays"}

\* the body that carries the items in a format: the ';;'-separated entries
\* "... Address: <address> - size: <size>" of filters, or addresses and sizes
\* as delimited strings or as arrays
Body(format, items) ==
    [format    |-> format,
     filters   |-> IF format = "filters" THEN items ELSE <<>>,
     addresses |-> IF format = "filters" THEN <<>>
                   ELSE [i \in DOMAIN items |-> items[i].address],
     sizes     |-> IF format = "filters" THEN <<>>
                   ELSE [i \in DOMAIN items |-> items[i].size]]

\* the answer of a handler
Answer(code, err, quoted, totals) ==
    <<[status |-> code, error |-> err,
       shipments |-> quoted, totalsByService |-> totals]>>
Rejected(error) == Answer(400, error, <<>>, <<>>)

\* lines 375-444: addressList and sizeList of the body, or the 400 it gets
RECURSIVE FirstUnmatched(_, _)
FirstUnmatched(entries, i) ==
    IF i > Len(entries) THEN 0
    ELSE IF SizeMatch(entries[i].size) = <<>> THEN i
    ELSE FirstUnmatched(entries, i + 1)

Lists(body) ==
    IF body.format = "filters" /\ body.filters # <<>>
    THEN IF FirstUnmatched(body.filters, 1) > 0
         THEN [error |-> "Could not parse size from filter entry",
               addressList |-> <<>>, sizeList |-> <<>>]
         ELSE [error |-> Null,
               addressList |-> [i \in DOMAIN body.filters |-> body.filters[i].address],
               sizeList |-> [i \in DOMAIN body.filters |-> SizeMatch(body.filters[i].size)[1]]]
    ELSE IF body.addresses = <<>>
         THEN [error |-> "Either \"filters\" string or \"addresses\" + \"sizes\" are required",
               addressList |-> <<>>, sizeList |-> <<>>]
    ELSE IF body.sizes = <<>>
         THEN [error |-> "sizes is required when using addresses param",
               addressList |-> <<>>, sizeList |-> <<>>]
    ELSE IF Len(body.addresses) # Len(body.sizes)
         THEN [error |-> "Address count doesn't match size count",
               addressList |-> <<>>, sizeList |-> <<>>]
    ELSE [error |-> Null, addressList |-> body.addresses, sizeList |-> body.sizes]

\* lines 446-463: the groups in the order their addresses first appear;
\* <<>> with the position of the first size parseFilterSize gives null for
RECURSIVE AddToGroups(_, _, _)
AddToGroups(groups, addr, size) ==
    IF groups = <<>> THEN <<[address |-> addr, filterSizes |-> <<size>>]>>
    ELSE IF Head(groups).address = addr
         THEN <<[address |-> addr,
                 filterSizes |-> Append(Head(groups).filterSizes, size)]>> \o Tail(groups)
    ELSE <<Head(groups)>> \o AddToGroups(Tail(groups), addr, size)

RECURSIVE GroupFrom(_, _, _, _)
GroupFrom(groups, addressList, sizeList, i) ==
    IF i > Len(addressList) THEN [error |-> Null, groups |-> groups]
    ELSE LET size == parseFilterSize(sizeList[i])
         IN  IF size = <<>>
             THEN [error |-> "Invalid filter size at position", groups |-> <<>>]
             ELSE GroupFrom(AddToGroups(groups, addressList[i], size[1]),
                            addressList, sizeList, i + 1)

\* the addressGroups the quote handler builds from a body, or its 400
Normalize(body) ==
    LET lists == Lists(body)
    IN  IF lists.error # Null THEN [error |-> lists.error, groups |-> <<>>]
        ELSE GroupFrom(<<>>, lists.addressList, lists.sizeList, 1)

(***************************************************************************)
(*                 POST /quote: PACKING, RATES AND TOTALS                  *)
(***************************************************************************)

\* packFiltersIntoBoxes as a function of its argument (the loop of PackNext)
RECURSIVE PackFrom(_, _, _)
PackFrom(bs, s, i) ==
    IF i > Len(s) THEN bs ELSE PackFrom(PlaceFilter(bs, s[i]), s, i + 1)

packFiltersIntoBoxes(fs) ==
    LET bs == PackFrom(<<>>, SortByDepth(fs), 1)
    IN  [b \in 1..Len(bs) |-> FinalBox(bs[b])]

\* Costs are in thousandths of a dollar.  Math.round(cost * 100) / 100
\* (binary floating point left aside), Math.round rounding halves up
RoundToCents(cost) == ((cost + 5) \div 10) * 10

\* what upsService.shopRates answers for a box: no RatedShipment (<<>>), or
\* <<rates>>, rates the cost per service name built by lines 501-515
NoRates == <<>>
GroundRate == <<("Ground" :> 12344)>>
GroundAndAirRates == <<("Ground" :> 7660) @@ ("2nd Day Air" :> 12344)>>
RateAnswers == {NoRates, GroundRate, GroundAndAirRates}

\* a box without rates entered as a rate of nothing
BoxRateZeroCost(box, answer) ==
    [box |-> box, error |-> answer = NoRates,
     rates |-> IF answer = NoRates THEN <<("Ground" :> 0)>> ELSE answer]

\* boxRates.push({ box, error: 'No rates returned' }) / ({ box, rates })
BoxRate(box, answer) ==
    [box |-> box, error |-> answer = NoRates, rates |-> answer]

\* lines 521-531: addressRates[service].cost += rateInfo.cost over the boxes
\* that have rates
RECURSIVE Accumulate(_, _, _)
Accumulate(acc, brs, i) ==
    IF i > Len(brs) THEN acc
    ELSE IF brs[i].rates = <<>> THEN Accumulate(acc, brs, i + 1)
    ELSE LET rates == brs[i].rates[1]
         IN  Accumulate([s \in DOMAIN acc \cup DOMAIN rates |->
                            (IF s \in DOMAIN acc THEN acc[s] ELSE 0)
                            + (IF s \in DOMAIN rates THEN rates[s] ELSE 0)],
                        brs, i + 1)

\* every box cost rounded before it is added
RECURSIVE AccumulateRounded(_, _, _)
AccumulateRounded(acc, brs, i) ==
    IF i > Len(brs) THEN acc
    ELSE IF brs[i].rates = <<>> THEN AccumulateRounded(acc, brs, i + 1)
    ELSE LET rates == brs[i].rates[1]
         IN  AccumulateRounded([s \in DOMAIN acc \cup DOMAIN rates |->
                            (IF s \in DOMAIN acc THEN acc[s] ELSE 0)
                            + (IF s \in DOMAIN rates THEN RoundToCents(rates[s]) ELSE 0)],
                        brs, i + 1)
AddressRatesRoundedPerBox(brs) == AccumulateRounded(<<>>, brs, 1)

\* lines 521-536: the per-service totals of an address, rounded after the sum
AddressRates(brs) ==
    LET sums == Accumulate(<<>>, brs, 1)
    IN  [s \in DOMAIN sums |-> RoundToCents(sums[s])]

\* grand totals fed with the unrounded sums of the address
AddToTotalsUnrounded(totals, brs) ==
    LET sums == Accumulate(<<>>, brs, 1)
    IN  [s \in DOMAIN totals \cup DOMAIN sums |->
            (IF s \in DOMAIN totals THEN totals[s] ELSE 0)
            + (IF s \in DOMAIN sums THEN sums[s] ELSE 0)]

\* lines 537-541: serviceTotals[service].cost += addressRates[service].cost
AddToTotals(totals, brs) ==
    LET rates == AddressRates(brs)
    IN  [s \in DOMAIN totals \cup DOMAIN rates |->
            (IF s \in DOMAIN totals THEN totals[s] ELSE 0)
            + (IF s \in DOMAIN rates THEN rates[s] ELSE 0)]

\* lines 560-563: round the grand totals
RoundTotals(totals) == [s \in DOMAIN totals |-> RoundToCents(totals[s])]

\* ---- the handler, step by step ----

InitQuote ==
    /\ reqBody \in {Body(f, items) : f \in Formats, items \in SeqsUpTo(Items, MaxItems)}
    /\ routePc = "read"
    /\ addressGroups = <<>>
    /\ groupIdx = 0
    /\ routeBoxes = <<>>
    /\ boxIdx = 0
    /\ boxRates = <<>>
    /\ results = <<>>
    /\ serviceTotals = <<>>
    /\ carrierCalls = <<>>
    /\ response = <<>>
    /\ PackIdle
    /\ MapIdle
    /\ PollIdle
    /\ NotifierIdle
    /\ VoidIdle

\* lines 375-463: the lists, the count checks and the grouping by address
QuoteReadRequest ==
    /\ routePc = "read"
    /\ LET n == Normalize(reqBody)
       IN  IF n.error # Null
           THEN /\ response' = Rejected(n.error)
                /\ routePc' = "done"
                /\ UNCHANGED <<addressGroups, groupIdx>>
           ELSE /\ addressGroups' = n.groups
                /\ groupIdx' = 1
                /\ routePc' = "address"
                /\ UNCHANGED response
    /\ UNCHANGED <<reqBody, routeBoxes, boxIdx, boxRates, results, serviceTotals,
                   carrierCalls, packVars, mapVars, pollVars, notifierVars, voidVars>>

\* lines 468-482: the next address is parsed and its filters are packed
QuoteNextAddress ==
    /\ routePc = "address"
    /\ groupIdx <= Len(addressGroups)
    /\ LET group == addressGroups[groupIdx]
       IN  IF parseAddress(group.address) = <<>>
           THEN /\ response' = Rejected("Could not parse address")
                /\ routePc' = "done"
                /\ UNCHANGED <<routeBoxes, boxIdx, boxRates>>
           ELSE /\ routeBoxes' = packFiltersIntoBoxes(group.filterSizes)
                /\ boxIdx' = 1
                /\ boxRates' = <<>>
                /\ routePc' = "rate"
                /\ UNCHANGED response
    /\ UNCHANGED <<reqBody, addressGroups, groupIdx, results, serviceTotals,
                   carrierCalls, packVars, mapVars, pollVars, notifierVars, voidVars>>

\* one pass of for (const box of boxes): shopRates answers for the box; after
\* the last box lines 520-557 aggregate, round, add to the grand totals and
\* push the result of the address
ShopRates(answer) ==
    /\ routePc = "rate"
    /\ carrierCalls' = Append(carrierCalls,
           [address |-> addressGroups[groupIdx].address, box |-> boxIdx,
            threw |-> FALSE, answer |-> answer])
    /\ LET brs == Append(boxRates, BoxRate(routeBoxes[boxIdx], answer))
       IN  /\ boxRates' = brs
           /\ IF boxIdx < Len(routeBoxes)
              THEN /\ boxIdx' = boxIdx + 1
                   /\ UNCHANGED <<results, serviceTotals, groupIdx, routePc>>
              ELSE /\ results' = Append(results,
                          [address     |-> parseAddress(addressGroups[groupIdx].address)[1],
                           filterCount |-> Len(addressGroups[groupIdx].filterSizes),
                           boxCount    |-> Len(routeBoxes),
                           boxes       |-> routeBoxes,
                           rates       |-> AddressRates(brs)])
                   /\ serviceTotals' = AddToTotals(serviceTotals, brs)
                   /\ groupIdx' = groupIdx + 1
                   /\ routePc' = "address"
                   /\ UNCHANGED boxIdx
    /\ UNCHANGED <<reqBody, addressGroups, routeBoxes, response,
                   packVars, mapVars, pollVars, notifierVars, voidVars>>

\* shopRates throws (the carrier answers with an error status): next(error)
ShopRatesThrows ==
    /\ routePc = "rate"
    /\ carrierCalls' = Append(carrierCalls,
           [address |-> addressGroups[groupIdx].address, box |-> boxIdx,
            threw |-> TRUE, answer |-> NoRates])
    /\ response' = Answer(500, "UPS Shop API error", <<>>, <<>>)
    /\ routePc' = "done"
    /\ UNCHANGED <<reqBody, addressGroups, groupIdx, routeBoxes, boxIdx, boxRates,
                   results, serviceTotals, packVars, mapVars, pollVars, notifierVars,
                   voidVars>>

\* lines 560-570: the addresses are over; the totals are rounded and sent
QuoteRespond ==
    /\ routePc = "address"
    /\ groupIdx > Len(addressGroups)
    /\ response' = Answer(200, Null, results, RoundTotals(serviceTotals))
    /\ routePc' = "done"
    /\ UNCHANGED <<reqBody, addressGroups, groupIdx, routeBoxes, boxIdx, boxRates,
                   results, serviceTotals, carrierCalls, packVars, mapVars, pollVars,
                   notifierVars, voidVars>>

NextQuote ==
    \/ QuoteReadRequest
    \/ QuoteNextAddress
    \/ \E answer \in RateAnswers : ShopRates(answer)
    \/ ShopRatesThrows
    \/ QuoteRespond

SpecQuote == InitQuote /\ [][NextQuote]_vars

(***************************************************************************)
(* Claims about POST /quote (checked under SpecQuote)                      *)
(***************************************************************************)

Services == {"Ground", "2nd Day Air"}

\* the shopRates calls made for the boxes of an address
RECURSIVE CallsFor(_, _)
CallsFor(calls, addr) ==
    IF calls = <<>> THEN <<>>
    ELSE (IF Head(calls).address = addr THEN <<Head(calls)>> ELSE <<>>)
         \o CallsFor(Tail(calls), addr)

\* the sum of the costs of service s over the calls that returned a rate for it
RECURSIVE CostOver(_, _)
CostOver(calls, s) ==
    IF calls = <<>> THEN 0
    ELSE (IF Head(calls).answer # NoRates /\ s \in DOMAIN Head(calls).answer[1]
          THEN Head(calls).answer[1][s] ELSE 0)
         + CostOver(Tail(calls), s)

\* the services returned for at least one of the calls
ReturnedIn(calls) ==
    {s \in Services :
        \E i \in DOMAIN calls :
            calls[i].answer # NoRates /\ s \in DOMAIN calls[i].answer[1]}

\* C14: the per-address cost reported for a service is the sum of that
\* service's cost over the address's boxes that returned rates, rounded to 2
\* decimals once after the summation; the services reported are those
\* returned for at least one box.
C14_AddressCostRoundedAfterSum ==
    \A i \in DOMAIN results :
        LET calls == CallsFor(carrierCalls, results[i].address.raw)
        IN  /\ DOMAIN results[i].rates = ReturnedIn(calls)
            /\ \A s \in ReturnedIn(calls) :
                  results[i].rates[s] = RoundToCents(CostOver(calls, s))

\* an address with two boxes, Ground at 12.344 for each: 24.69 is reported,
\* not the 24.68 of rounding per box
C14_Witness ==
    \E i \in DOMAIN results :
        /\ results[i].boxCount = 2
        /\ "Ground" \in DOMAIN results[i].rates
        /\ results[i].rates["Ground"] = 24690
        /\ CostOver(CallsFor(carrierCalls, results[i].address.raw), "Ground") = 24688

\* the sum of the reported per-address cost of s over the results
RECURSIVE ReportedOver(_, _)
ReportedOver(rs, s) ==
    IF rs = <<>> THEN 0
    ELSE (IF s \in DOMAIN Head(rs).rates THEN Head(rs).rates[s] ELSE 0)
         + ReportedOver(Tail(rs), s)

\* C15: totalsByService[service] is the sum over the addresses of the rounded
\* per-address total of the service, rounded to 2 decimals.
C15_GrandTotalsOfRoundedAddressTotals ==
    (response # <<>> /\ response[1].status = 200) =>
        LET totals == response[1].totalsByService
            quoted == response[1].shipments
        IN  /\ DOMAIN totals = UNION {DOMAIN quoted[i].rates : i \in DOMAIN quoted}
            /\ \A s \in DOMAIN totals :
                  totals[s] = RoundToCents(ReportedOver(quoted, s))

\* two addresses with Ground totals 12.34 and 7.66: grand total 20.00
C15_Witness ==
    /\ response # <<>>
    /\ response[1].status = 200
    /\ Len(response[1].shipments) = 2
    /\ response[1].shipments[1].rates = ("Ground" :> 12340)
    /\ response[1].shipments[2].rates = ("Ground" :> 7660) @@ ("2nd Day Air" :> 12340)
    /\ response[1].totalsByService = ("Ground" :> 20000) @@ ("2nd Day Air" :> 12340)

\* shopRates has just answered, without throwing, that there are no rates
NoRatesReturned ==
    /\ routePc = "rate"
    /\ Len(carrierCalls') = Len(carrierCalls) + 1
    /\ ~carrierCalls'[Len(carrierCalls')].threw
    /\ carrierCalls'[Len(carrierCalls')].answer = NoRates

RECURSIVE SumBoxCount(_)
SumBoxCount(rs) == IF rs = <<>> THEN 0 ELSE Head(rs).boxCount + SumBoxCount(Tail(rs))

\* C16: a box whose lookup returns no rates is recorded with the error marker
\* and without rates, adds nothing to the address's totals nor to the grand
\* totals, and the handler goes on with the next box or the next address; a
\* quote that is answered has looked up every box of every address.
C16_NoRatesBoxIsSkipped ==
    [][/\ NoRatesReturned =>
            /\ boxRates'[Len(boxRates')].error
            /\ boxRates'[Len(boxRates')].rates = <<>>
            /\ boxRates'[Len(boxRates')].box = routeBoxes[boxIdx]
            /\ AddressRates(boxRates') = AddressRates(boxRates)
            /\ response' = <<>>
            /\ IF boxIdx < Len(routeBoxes)
               THEN /\ routePc' = "rate"
                    /\ boxIdx' = boxIdx + 1
                    /\ serviceTotals' = serviceTotals
               ELSE /\ routePc' = "address"
                    /\ groupIdx' = groupIdx + 1
                    /\ results'[Len(results')].rates = AddressRates(boxRates)
                    /\ serviceTotals' = AddToTotals(serviceTotals, boxRates)
       /\ (response' # <<>> /\ response'[1].status = 200) =>
            /\ Len(results') = Len(addressGroups')
            /\ Len(carrierCalls') = SumBoxCount(results')]_vars

\* an answered quote of two addresses; the only box of the first had no rates,
\* the second address was still looked up and carries the totals alone
C16_Witness ==
    /\ response # <<>>
    /\ response[1].status = 200
    /\ Len(carrierCalls) = 2
    /\ carrierCalls[1].answer = NoRates
    /\ carrierCalls[2].answer = GroundRate
    /\ carrierCalls[1].address # carrierCalls[2].address
    /\ DOMAIN response[1].shipments[1].rates = {}
    /\ response[1].totalsByService = ("Ground" :> 12340)

\* the (address, size) entries of a body
EntriesOf(body) ==
    IF body.format = "filters" THEN body.filters
    ELSE [i \in DOMAIN body.addresses |->
             [address |-> body.addresses[i], size |-> body.sizes[i]]]

\* a size token of three x-separated nonnegative numbers
ThreeNonnegativeNumbers(size) ==
    /\ Len(size) = 3
    /\ \A i \in 1..3 : size[i] \in DigitParts \cup {"16.0"}

\* an address of the form Street, City, ST, 12345 or 12345-6789
WellFormedAddress(addr) == addr \in GoodAddresses

HasBadEntry(body) ==
    \E i \in DOMAIN EntriesOf(body) :
        \/ ~WellFormedAddress(EntriesOf(body)[i].address)
        \/ ~ThreeNonnegativeNumbers(EntriesOf(body)[i].size)

\* C17: a quote request holding an address that does not parse or a size token
\* that is not three nonnegative numbers is answered 400 wherever the entry
\* sits, and no rate lookup is made for any of its addresses.
C17_QuoteValidationFailsFast ==
    HasBadEntry(reqBody) =>
        /\ carrierCalls = <<>>
        /\ response # <<>> => response[1].status = 400

\* C19: the items given as a filters string, as delimited strings or as
\* arrays give the same address groups, for size tokens of three nonnegative
\* numbers: what the handler made of the body is what it makes of the same
\* items in every format.
C19_InputFormatsEquivalent ==
    (routePc # "read" /\ reqBody # <<>>
        /\ \A i \in DOMAIN EntriesOf(reqBody) :
              ThreeNonnegativeNumbers(EntriesOf(reqBody)[i].size)) =>
        \A f \in Formats :
            LET n == Normalize(Body(f, EntriesOf(reqBody)))
            IN  /\ (n.error = Null) <=> (addressGroups # <<>>)
                /\ n.error = Null => n.groups = addressGroups

(***************************************************************************)
(*                              POST /ship                                 *)
(***************************************************************************)

\* lines 694-711: filtersByAddress, fed by the entries in which both the
\* address and the size pattern match; the other entries are passed over
RECURSIVE ShipGroupFrom(_, _, _)
ShipGroupFrom(groups, entries, i) ==
    IF i > Len(entries) THEN groups
    ELSE IF SizeMatch(entries[i].size) = <<>>
         THEN ShipGroupFrom(groups, entries, i + 1)
    ELSE ShipGroupFrom(AddToGroups(groups, entries[i].address,
                                   SizeMatch(entries[i].size)[1]),
                       entries, i + 1)

\* sizes.map(s => parseFilterSize(s)).filter(s => s !== null)
RECURSIVE ParsedSizes(_)
ParsedSizes(sizes) ==
    IF sizes = <<>> THEN <<>>
    ELSE parseFilterSize(Head(sizes)) \o ParsedSizes(Tail(sizes))

\* what upsService.createShipment answers for a box: no ShipmentResults
\* (<<>>), or the label bought with its tracking number and charge
NoLabel == <<>>
LabelAnswers ==
    {NoLabel, <<[trackingNumber |-> "1Z03", charge |-> 12344]>>}

\* the entry of shipmentResults for a box
ShipmentResult(box, answer) ==
    [box |-> box, error |-> answer = NoLabel, rates |-> answer]

\* addressCharges += chargeAmount over the boxes that got a label
RECURSIVE AddressCharges(_)
AddressCharges(srs) ==
    IF srs = <<>> THEN 0
    ELSE (IF Head(srs).rates = NoLabel THEN 0 ELSE Head(srs).rates[1].charge)
         + AddressCharges(Tail(srs))

InitShip ==
    /\ reqBody \in {Body("filters", items) : items \in SeqsUpTo(Items, MaxItems)}
    /\ routePc = "shipRead"
    /\ addressGroups = <<>>
    /\ groupIdx = 0
    /\ routeBoxes = <<>>
    /\ boxIdx = 0
    /\ boxRates = <<>>
    /\ results = <<>>
    /\ serviceTotals = <<>>
    /\ carrierCalls = <<>>
    /\ response = <<>>
    /\ PackIdle
    /\ MapIdle
    /\ PollIdle
    /\ NotifierIdle
    /\ VoidIdle

\* lines 678-719: filters is required, its entries are grouped by address
ShipReadRequest ==
    /\ routePc = "shipRead"
    /\ LET groups == ShipGroupFrom(<<>>, reqBody.filters, 1)
       IN  IF reqBody.filters = <<>>
           THEN /\ response' = Rejected("filters field is required")
                /\ routePc' = "done"
                /\ UNCHANGED <<addressGroups, groupIdx>>
           ELSE IF groups = <<>>
           THEN /\ response' = Rejected("Could not parse addresses/sizes from filters string")
                /\ routePc' = "done"
                /\ UNCHANGED <<addressGroups, groupIdx>>
           ELSE /\ addressGroups' = groups
                /\ groupIdx' = 1
                /\ routePc' = "shipAddress"
                /\ UNCHANGED response
    /\ UNCHANGED <<reqBody, routeBoxes, boxIdx, boxRates, results, serviceTotals,
                   carrierCalls, packVars, mapVars, pollVars, notifierVars, voidVars>>

\* lines 726-755: an address that does not parse gets an error entry and the
\* loop continues; otherwise its sizes are parsed and packed
ShipNextAddress ==
    /\ routePc = "shipAddress"
    /\ groupIdx <= Len(addressGroups)
    /\ LET group == addressGroups[groupIdx]
           filterSizes == ParsedSizes(group.filterSizes)
       IN  IF parseAddress(group.address) = <<>> \/ filterSizes = <<>>
           THEN /\ results' = Append(results,
                       [address |-> group.address, error |-> TRUE,
                        boxCount |-> 0, charges |-> 0, shipments |-> <<>>])
                /\ groupIdx' = groupIdx + 1
                /\ UNCHANGED <<routeBoxes, boxIdx, boxRates, routePc>>
           ELSE /\ routeBoxes' = packFiltersIntoBoxes(filterSizes)
                /\ boxIdx' = 1
                /\ boxRates' = <<>>
                /\ routePc' = "label"
                /\ UNCHANGED <<results, groupIdx>>
    /\ UNCHANGED <<reqBody, addressGroups, serviceTotals, carrierCalls, response,
                   packVars, mapVars, pollVars, notifierVars, voidVars>>

\* one pass of for (const box of boxesToShip): createShipment answers for the
\* box; after the last box lines 813-830 push the result of the address
CreateShipment(answer) ==
    /\ routePc = "label"
    /\ carrierCalls' = Append(carrierCalls,
           [address |-> addressGroups[groupIdx].address, box |-> boxIdx,
            threw |-> FALSE, answer |-> answer])
    /\ LET srs == Append(boxRates, ShipmentResult(routeBoxes[boxIdx], answer))
       IN  /\ boxRates' = srs
           /\ IF boxIdx < Len(routeBoxes)
              THEN /\ boxIdx' = boxIdx + 1
                   /\ UNCHANGED <<results, groupIdx, routePc>>
              ELSE /\ results' = Append(results,
                          [address |-> addressGroups[groupIdx].address, error |-> FALSE,
                           boxCount |-> Len(routeBoxes),
                           charges |-> RoundToCents(AddressCharges(srs)),
                           shipments |-> srs])
                   /\ groupIdx' = groupIdx + 1
                   /\ routePc' = "shipAddress"
                   /\ UNCHANGED boxIdx
    /\ UNCHANGED <<reqBody, addressGroups, routeBoxes, serviceTotals, response,
                   packVars, mapVars, pollVars, notifierVars, voidVars>>

\* createShipment throws: next(error)
CreateShipmentThrows ==
    /\ routePc = "label"
    /\ carrierCalls' = Append(carrierCalls,
           [address |-> addressGroups[groupIdx].address, box |-> boxIdx,
            threw |-> TRUE, answer |-> NoLabel])
    /\ response' = Answer(500, "UPS Ship API error", <<>>, <<>>)
    /\ routePc' = "done"
    /\ UNCHANGED <<reqBody, addressGroups, groupIdx, routeBoxes, boxIdx, boxRates,
                   results, serviceTotals, packVars, mapVars, pollVars, notifierVars,
                   voidVars>>

\* lines 833-846: success: true with the results of the addresses
ShipRespond ==
    /\ routePc = "shipAddress"
    /\ groupIdx > Len(addressGroups)
    /\ response' = Answer(200, Null, results, <<>>)
    /\ routePc' = "done"
    /\ UNCHANGED <<reqBody, addressGroups, groupIdx, routeBoxes, boxIdx, boxRates,
                   results, serviceTotals, carrierCalls, packVars, mapVars, pollVars,
                   notifierVars, voidVars>>

NextShip ==
    \/ ShipReadRequest
    \/ ShipNextAddress
    \/ \E answer \in LabelAnswers : CreateShipment(answer)
    \/ CreateShipmentThrows
    \/ ShipRespond

SpecShip == InitShip /\ [][NextShip]_vars

\* a label was bought: a createShipment call that returned ShipmentResults
LabelsBought ==
    {i \in DOMAIN carrierCalls :
        ~carrierCalls[i].threw /\ carrierCalls[i].answer # NoLabel}

\* C18: a ship request holding an entry whose address or size token does not
\* parse is rejected, and createShipment is called for no box of any address.
C18_ShipValidationFailsFast ==
    (routePc \notin {"idle", "shipRead"} /\ HasBadEntry(reqBody)) =>
        /\ LabelsBought = {}
        /\ carrierCalls = <<>>
        /\ response # <<>> => response[1].status = 400

(***************************************************************************)
(*                              POST /void                                 *)
(***************************************************************************)

\* the longest trackingNumbers array of a request
MaxVoid == 3

\* req.body.trackingNumbers: left out, an array of tracking numbers, or a
\* value that is not an array (a single text)
NoArray == [kind |-> "absent", items |-> <<>>]
NotAnArray == [kind |-> "text", items |-> <<>>]
ArrayOf(items) == [kind |-> "array", items |-> items]

VoidBodies ==
    [trackingNumber  : {Null, "1Z01"},
     trackingNumbers : {NoArray, NotAnArray}
                         \cup {ArrayOf(l) : l \in SeqsUpTo(TrackingNumbers, MaxVoid)}]

\* if (trackingNumbers && Array.isArray(trackingNumbers)) numbersToVoid =
\* trackingNumbers; else if (trackingNumber) numbersToVoid = [trackingNumber]
NumbersToVoid(body) ==
    IF body.trackingNumbers.kind = "array" THEN body.trackingNumbers.items
    ELSE IF ~Falsy(body.trackingNumber) THEN <<body.trackingNumber>>
    ELSE <<>>

\* result.VoidShipmentResponse?.SummaryResult?.Status?.Description of what
\* voidShipment returned, Null when the answer has none
VoidDescriptions == {"Success", Null}

InitVoid ==
    /\ reqBody \in VoidBodies
    /\ routePc = "voidRead"
    /\ numbersToVoid = <<>>
    /\ voidIdx = 0
    /\ voided = <<>>
    /\ failed = <<>>
    /\ voidCalls = <<>>
    /\ addressGroups = <<>>
    /\ groupIdx = 0
    /\ routeBoxes = <<>>
    /\ boxIdx = 0
    /\ boxRates = <<>>
    /\ results = <<>>
    /\ serviceTotals = <<>>
    /\ carrierCalls = <<>>
    /\ response = <<>>
    /\ PackIdle
    /\ MapIdle
    /\ PollIdle
    /\ NotifierIdle

\* the handler up to the loop: the list is built; empty, the answer is 400
VoidReadRequest ==
    /\ routePc = "voidRead"
    /\ numbersToVoid' = NumbersToVoid(reqBody)
    /\ IF Len(NumbersToVoid(reqBody)) = 0
       THEN /\ response' = <<[code |-> 400,
                              error |-> "trackingNumber or trackingNumbers required"]>>
            /\ routePc' = "done"
            /\ UNCHANGED voidIdx
       ELSE /\ voidIdx' = 1
            /\ routePc' = "void"
            /\ UNCHANGED response
    /\ UNCHANGED <<reqBody, voided, failed, voidCalls, addressGroups, groupIdx,
                   routeBoxes, boxIdx, boxRates, results, serviceTotals, carrierCalls,
                   packVars, mapVars, pollVars, notifierVars>>

\* await upsService.voidShipment(tn) returns: voided.push({ trackingNumber,
\* status: description || 'Voided' })
VoidShipmentReturns(description) ==
    /\ routePc = "void"
    /\ voidIdx <= Len(numbersToVoid)
    /\ LET tn == numbersToVoid[voidIdx]
       IN  /\ voided' = Append(voided,
                  [trackingNumber |-> tn,
                   status |-> IF Falsy(description) THEN "Voided" ELSE description])
           /\ voidCalls' = Append(voidCalls, [trackingNumber |-> tn, returned |-> TRUE])
    /\ voidIdx' = voidIdx + 1
    /\ UNCHANGED <<reqBody, routePc, numbersToVoid, failed, response, addressGroups,
                   groupIdx, routeBoxes, boxIdx, boxRates, results, serviceTotals,
                   carrierCalls, packVars, mapVars, pollVars, notifierVars>>

\* a failed void that ends the loop
VoidShipmentThrowsAndStops ==
    /\ routePc = "void"
    /\ voidIdx <= Len(numbersToVoid)
    /\ LET tn == numbersToVoid[voidIdx]
       IN  /\ failed' = Append(failed, [trackingNumber |-> tn, error |-> "UPS API error"])
           /\ voidCalls' = Append(voidCalls, [trackingNumber |-> tn, returned |-> FALSE])
    /\ voidIdx' = Len(numbersToVoid) + 1
    /\ UNCHANGED <<reqBody, routePc, numbersToVoid, voided, response, addressGroups,
                   groupIdx, routeBoxes, boxIdx, boxRates, results, serviceTotals,
                   carrierCalls, packVars, mapVars, pollVars, notifierVars>>

\* await upsService.voidShipment(tn) throws: the catch of the iteration does
\* failed.push({ trackingNumber, error }) and the loop goes on
VoidShipmentThrows ==
    /\ routePc = "void"
    /\ voidIdx <= Len(numbersToVoid)
    /\ LET tn == numbersToVoid[voidIdx]
       IN  /\ failed' = Append(failed, [trackingNumber |-> tn, error |-> "UPS API error"])
           /\ voidCalls' = Append(voidCalls, [trackingNumber |-> tn, returned |-> FALSE])
    /\ voidIdx' = voidIdx + 1
    /\ UNCHANGED <<reqBody, routePc, numbersToVoid, voided, response, addressGroups,
                   groupIdx, routeBoxes, boxIdx, boxRates, results, serviceTotals,
                   carrierCalls, packVars, mapVars, pollVars, notifierVars>>

\* res.json({ success, totalRequested, totalVoided, totalFailed, voided, failed })
VoidRespond ==
    /\ routePc = "void"
    /\ voidIdx > Len(numbersToVoid)
    /\ response' = <<[code           |-> 200,
                      success        |-> Len(failed) = 0,
                      totalRequested |-> Len(numbersToVoid),
                      totalVoided    |-> Len(voided),
                      totalFailed    |-> Len(failed),
                      voided         |-> voided,
                      failed         |-> failed]>>
    /\ routePc' = "done"
    /\ UNCHANGED <<reqBody, numbersToVoid, voidIdx, voided, failed, voidCalls,
                   addressGroups, groupIdx, routeBoxes, boxIdx, boxRates, results,
                   serviceTotals, carrierCalls, packVars, mapVars, pollVars, notifierVars>>

NextVoid ==
    \/ VoidReadRequest
    \/ \E description \in VoidDescriptions : VoidShipmentReturns(description)
    \/ VoidShipmentThrows
    \/ VoidRespond

SpecVoid == InitVoid /\ [][NextVoid]_vars

\* the tracking numbers of the calls that returned (flag TRUE) or threw
\* (flag FALSE), in the order of the calls
RECURSIVE NumbersWhere(_, _)
NumbersWhere(calls, flag) ==
    IF calls = <<>> THEN <<>>
    ELSE (IF Head(calls).returned = flag THEN <<Head(calls).trackingNumber>> ELSE <<>>)
           \o NumbersWhere(Tail(calls), flag)

TrackingNumbersOf(entries) == [i \in DOMAIN entries |-> entries[i].trackingNumber]

\* C30: POST /void calls voidShipment once for every entry of the request
\* list, in order, a failure not stopping the later ones; the entries whose
\* call returned are voided and those whose call threw are failed, each list
\* in request order, so totalVoided + totalFailed = totalRequested; success
\* is true exactly when failed is empty.
C30_VoidPartitionsItsInput ==
    /\ routePc = "void" =>
          /\ Len(voided) + Len(failed) = voidIdx - 1
          /\ Len(voidCalls) = voidIdx - 1
    /\ (routePc = "done" /\ response[1].code = 200) =>
          LET r == response[1]
          IN  /\ numbersToVoid = NumbersToVoid(reqBody)
              /\ TrackingNumbersOf(voidCalls) = numbersToVoid
              /\ TrackingNumbersOf(r.voided) = NumbersWhere(voidCalls, TRUE)
              /\ TrackingNumbersOf(r.failed) = NumbersWhere(voidCalls, FALSE)
              /\ r.totalRequested = Len(numbersToVoid)
              /\ r.totalVoided = Len(r.voided)
              /\ r.totalFailed = Len(r.failed)
              /\ r.totalVoided + r.totalFailed = r.totalRequested
              /\ r.success <=> (r.failed = <<>>)
    /\ (routePc = "done" /\ response[1].code = 400) =>
          /\ NumbersToVoid(reqBody) = <<>>
          /\ voidCalls = <<>>

\* three numbers requested: the void of the second failed, the third was
\* voided all the same
C30_Witness ==
    /\ routePc = "done"
    /\ Len(numbersToVoid) = 3
    /\ voidCalls[2].returned = FALSE
    /\ voidCalls[3].returned = TRUE
    /\ response[1].success = FALSE
    /\ response[1].totalVoided = 2
    /\ response[1].totalFailed = 1

(***************************************************************************)
(* Claims about the packer: oversized items, weights                       *)
(***************************************************************************)

\* an item deeper than the cap
Oversized(f) == f.depth > MAX_DEPTH

OversizedOf(s) == SelectSeq(s, LAMBDA f : Oversized(f))
WithinCapOf(s) == SelectSeq(s, LAMBDA f : ~Oversized(f))

\* box holds an oversized item
HoldsOversized(box) ==
    \E i \in DOMAIN box.filters : Oversized(box.filters[i])

IsEstimateOf(e, f) ==
    LET tenfold == 300 + 2 * (f.length * f.width * f.depth)
    IN  10 * e - 5 <= tenfold /\ tenfold < 10 * e + 5

EstimateOf(f) ==
    LET below == (300 + 2 * (f.length * f.width * f.depth)) \div 10
    IN  CHOOSE e \in {below, below + 1} : IsEstimateOf(e, f)

RECURSIVE SumEstimates(_)
SumEstimates(s) ==
    IF s = <<>> THEN 0 ELSE EstimateOf(Head(s)) + SumEstimates(Tail(s))

RECURSIVE MaxLength(_)
MaxLength(s) == IF s = <<>> THEN 0 ELSE Max(Head(s).length, MaxLength(Tail(s)))

RECURSIVE MaxWidth(_)
MaxWidth(s) == IF s = <<>> THEN 0 ELSE Max(Head(s).width, MaxWidth(Tail(s)))

\* the length and width of every returned box are the greatest length and the
\* greatest width of its items
LengthAndWidthAreMaxima ==
    \A b \in DOMAIN result :
        /\ result[b].length = MaxLength(boxes[b].filters)
        /\ result[b].width = MaxWidth(boxes[b].filters)

\* C27: the weight of each returned box equals the tare 0.5 lb plus the sum of
\* the estimated weights of its items, and its length and width are the maxima
\* over its items.  (Returned weights are in tenths of a pound, tare and
\* estimates in hundredths.)
C27_ReturnedWeightIsTarePlusEstimates ==
    pcPack = "done" =>
        /\ \A b \in DOMAIN result :
              10 * result[b].weight = 50 + SumEstimates(boxes[b].filters)
        /\ LengthAndWidthAreMaxima

\* C27 as amended: the weight a box accumulates is the tare plus the sum of
\* the estimates; the returned weight is that weight rounded to one decimal,
\* the tenth of a pound nearest to it; length and width are the maxima.
C27_ReturnedWeightRoundedToTenths ==
    /\ \A b \in DOMAIN boxes :
          boxes[b].weight = 50 + SumEstimates(boxes[b].filters)
    /\ pcPack = "done" =>
          /\ \A b \in DOMAIN result :
                LET w == 50 + SumEstimates(boxes[b].filters)
                IN  /\ 10 * result[b].weight - 5 <= w
                    /\ w < 10 * result[b].weight + 5
          /\ LengthAndWidthAreMaxima

\* a returned box of two items of different footprints whose accumulated
\* weight, 2.54 lb, is returned as 2.5 lb
C27_Witness ==
    /\ pcPack = "done"
    /\ \E b \in DOMAIN result :
          /\ result[b].filterCount = 2
          /\ result[b].length = 20
          /\ result[b].width = 25
          /\ boxes[b].weight = 254
          /\ result[b].weight = 25

====
